---- MODULE Spec2Model ----
(***************************************************************************)
(* Model of the NestJS starter.                                            *)
(*   Pagination engine (src/common/utils/orm-filter.util.ts):              *)
(*     normalizePaginationOptions, buildPaginationMeta, paginate, and the  *)
(*     Pagination parameter decorator that feeds it.                       *)
(*   HTTP collaborators: TimeoutInterceptor, GlobalExceptionFilter,        *)
(*     sanitizeRequestBody, TransformResponseInterceptor.                  *)
(*                                                                         *)
(* Every component has its own variables and its own specification; the    *)
(* variables of the other components keep their initial value there.       *)
(*                                                                         *)
(* An optional value (page?, limit?, transform?, number | null) is a       *)
(* sequence of length 0 (undefined / null) or 1 (the value).               *)
(***************************************************************************)
EXTENDS Integers, Sequences, FiniteSets, TLC

(* ---- program constants: src/common/constants/app.constant.ts ---------- *)
DEFAULT_PAGE == 1

DEFAULT_LIMIT == 10

MIN_PAGE == 1

MAX_PAGE_SIZE == 100

DEFAULT_TIMEOUT_MS == 30000

\* default cache TTL, seconds
DEFAULT_CACHE_TTL == 60

(* ---- bounds of the model ---------------------------------------------- *)
\* raw page / limit inputs range from -MaxNeg upwards
MaxNeg == 2

\* largest raw page tried
MaxPageIn == 4

\* largest "small" raw limit tried (besides the values around the constants)
MaxSmallLimit == 3

\* an oversized raw limit (the documentation's example uses 500)
OversizedLimit == 500

\* the fetch callback returns at most this many items
MaxItems == 3

\* the fetch callback reports a total of at most this
MaxTotal == 5

\* number of distinct item values
NumItemValues == 2

\* the clock of a request advances in steps of this many milliseconds
TickMs == 5000

\* a timeout passed to the TimeoutInterceptor constructor
CustomTimeoutMs == 12000

\* longest query-string value tried for ?page= and ?limit=
MaxQueryLen == 3

\* seconds between two observations of the Redis clock
TickSeconds == 20

\* the Redis clock stops here
MaxNow == 60

\* largest value of a filtered field
MaxFieldValue == 3

\* randomInt is called with integers between -MaxRandom and MaxRandom
MaxRandom == 4

\* most search conditions in one call of mergeSearchConditions
MaxSearchConditions == 2

(* ---- input domains ---------------------------------------------------- *)
Missing == << >>

Some(v) == << v >>

PageInputs == {Missing} \cup { Some(p) : p \in (0 - MaxNeg)..MaxPageIn }

LimitInputs ==
  {Missing} \cup
  { Some(l) : l \in ((0 - MaxNeg)..MaxSmallLimit)
                    \cup {DEFAULT_LIMIT, MAX_PAGE_SIZE - 1, MAX_PAGE_SIZE,
                          MAX_PAGE_SIZE + 1, OversizedLimit} }

ItemValues == 1..NumItemValues

ItemLists == UNION { [1..n -> ItemValues] : n \in 0..MaxItems }

FetchErrors == {"data source failure", "connection lost"}

\* the per-item transform a caller may pass (a sample injective mapping)
sampleTransform(item) == 0 - item

\* characters of a query-string value: a sign, two digits, a non-digit
QueryChars == {"-", "0", "1", "x"}

QueryStrings == UNION { [1..n -> QueryChars] : n \in 0..MaxQueryLen }

\* request.query.page / request.query.limit: absent, or a string
QueryValues == {Missing} \cup { Some(str) : str \in QueryStrings }

(* ---- JavaScript helpers ----------------------------------------------- *)
\* a JavaScript number that is an integer or NaN: << isNaN, value >>
NaN == << TRUE, 0 >>

Num(n) == << FALSE, n >>

IsNaN(x) == x[1]

Digits == {"0", "1", "2", "3", "4", "5", "6", "7", "8", "9"}

DigitValue(c) ==
  CASE c = "0" -> 0 [] c = "1" -> 1 [] c = "2" -> 2 [] c = "3" -> 3
    [] c = "4" -> 4 [] c = "5" -> 5 [] c = "6" -> 6 [] c = "7" -> 7
    [] c = "8" -> 8 [] c = "9" -> 9

\* number of leading decimal digits of str
RECURSIVE LeadingDigits(_)
LeadingDigits(str) ==
  IF str = << >> \/ Head(str) \notin Digits THEN 0
  ELSE 1 + LeadingDigits(Tail(str))

\* value of a string of decimal digits
RECURSIVE DecimalValue(_)
DecimalValue(digs) ==
  IF digs = << >> THEN 0
  ELSE DecimalValue(SubSeq(digs, 1, Len(digs) - 1)) * 10
         + DigitValue(digs[Len(digs)])

\* parseInt(value as string, 10): undefined is converted to "undefined";
\* an optional sign, then the longest run of digits; NaN when there is none
parseInt(value) ==
  IF value = Missing THEN NaN
  ELSE LET str    == value[1]
           signed == str # << >> /\ Head(str) \in {"-", "+"}
           body   == IF signed THEN Tail(str) ELSE str
           n      == LeadingDigits(body)
           mag    == DecimalValue(SubSeq(body, 1, n))
       IN  IF n = 0 THEN NaN
           ELSE IF signed /\ Head(str) = "-" THEN Num(0 - mag) ELSE Num(mag)

\* x || d for a number x: NaN and 0 are falsy
OrDefault(x, d) == IF IsNaN(x) \/ x[2] = 0 THEN Num(d) ELSE x

\* Math.max(a, b)
MathMax(a, b) == IF a >= b THEN a ELSE b

\* Math.min(a, b)
MathMin(a, b) == IF a <= b THEN a ELSE b

\* a ?? d
Coalesce(opt, d) == IF opt = Missing THEN d ELSE opt[1]

\* Math.ceil(a / b) for b >= 1
MathCeilDiv(a, b) == 0 - ((0 - a) \div b)

\* the mapped list built back to front
MapItems_reversed(items, hasTransform) ==
  IF hasTransform
  THEN [i \in 1..Len(items) |-> sampleTransform(items[Len(items) + 1 - i])]
  ELSE items

\* items.map(f)
MapItems(items, hasTransform) ==
  IF hasTransform THEN [i \in 1..Len(items) |-> sampleTransform(items[i])]
  ELSE items

(* ---- faulty variants, used to show that the properties below depend on  *)
(* ---- the code they are about ------------------------------------------ *)
\* the upper clamp Math.min(..., MAX_PAGE_SIZE) forgotten
normalizePaginationOptions_noCap(options) ==
  LET page  == MathMax(Coalesce(options.page, MIN_PAGE), MIN_PAGE)
      limit == MathMax(Coalesce(options.limit, DEFAULT_LIMIT), 1)
  IN  [page |-> page, limit |-> limit]

\* `||` written for `??`: a limit of 0 is falsy and takes the default
normalizePaginationOptions_falsyDefault(options) ==
  LET page  == MathMax(Coalesce(options.page, MIN_PAGE), MIN_PAGE)
      rawL  == IF options.limit = Missing \/ options.limit[1] = 0
               THEN DEFAULT_LIMIT ELSE options.limit[1]
      limit == MathMin(MathMax(rawL, 1), MAX_PAGE_SIZE)
  IN  [page |-> page, limit |-> limit]

\* the page clamp forgotten: page = options.page ?? MIN_PAGE
normalizePaginationOptions_noPageClamp(options) ==
  LET page  == Coalesce(options.page, MIN_PAGE)
      limit == MathMin(MathMax(Coalesce(options.limit, DEFAULT_LIMIT), 1),
                       MAX_PAGE_SIZE)
  IN  [page |-> page, limit |-> limit]

\* the page taken as a 0-based index and shifted: (page ?? 0) + 1
normalizePaginationOptions_shiftedPage(options) ==
  LET page  == MathMax(Coalesce(options.page, 0) + 1, MIN_PAGE)
      limit == MathMin(MathMax(Coalesce(options.limit, DEFAULT_LIMIT), 1),
                       MAX_PAGE_SIZE)
  IN  [page |-> page, limit |-> limit]

(* ---- normalizePaginationOptions --------------------------------------- *)
normalizePaginationOptions(options) ==
  LET page  == MathMax(Coalesce(options.page, MIN_PAGE), MIN_PAGE)
      limit == MathMin(MathMax(Coalesce(options.limit, DEFAULT_LIMIT), 1),
                       MAX_PAGE_SIZE)
  IN  [page |-> page, limit |-> limit]

(* ---- Pagination parameter decorator ----------------------------------- *)
\* the { page, limit } object literal handed to normalizePaginationOptions
ToOptions(arg) == [page |-> Some(arg.page[2]), limit |-> Some(arg.limit[2])]

\* `??` written for `||`: NaN is not nullish and is passed on
Pagination_nullish(q) ==
  LET page  == parseInt(q.page)
      limit == parseInt(q.limit)
      arg   == [page |-> page, limit |-> limit]
  IN  [arg |-> arg, out |-> normalizePaginationOptions(ToOptions(arg))]

\* the decorator's factory: arg is what it passes to
\* normalizePaginationOptions, out is what it returns
Pagination(q) ==
  LET page  == OrDefault(parseInt(q.page), DEFAULT_PAGE)
      limit == OrDefault(parseInt(q.limit), DEFAULT_LIMIT)
      arg   == [page |-> page, limit |-> limit]
  IN  [arg |-> arg, out |-> normalizePaginationOptions(ToOptions(arg))]

\* Math.floor written for Math.ceil
buildPaginationMeta_floor(total, count, skip, options) ==
  LET totalPages == MathMax(total \div options.limit, 1)
      firstItem  == IF total > 0 THEN skip + 1 ELSE 0
      lastItem   == IF total > 0 THEN skip + count ELSE 0
  IN  [ total           |-> total,
        count           |-> count,
        page            |-> options.page,
        limit           |-> options.limit,
        totalPages      |-> totalPages,
        firstItem       |-> firstItem,
        lastItem        |-> lastItem,
        nextPage        |-> IF options.page < totalPages
                            THEN Some(options.page + 1) ELSE Missing,
        previousPage    |-> IF options.page > 1
                            THEN Some(options.page - 1) ELSE Missing,
        hasNextPage     |-> options.page < totalPages,
        hasPreviousPage |-> options.page > 1 ]

\* firstItem 0-based: skip written for skip + 1
buildPaginationMeta_zeroBased(total, count, skip, options) ==
  LET totalPages == MathMax(MathCeilDiv(total, options.limit), 1)
      firstItem  == IF total > 0 THEN skip ELSE 0
      lastItem   == IF total > 0 THEN skip + count ELSE 0
  IN  [ total           |-> total,
        count           |-> count,
        page            |-> options.page,
        limit           |-> options.limit,
        totalPages      |-> totalPages,
        firstItem       |-> firstItem,
        lastItem        |-> lastItem,
        nextPage        |-> IF options.page < totalPages
                            THEN Some(options.page + 1) ELSE Missing,
        previousPage    |-> IF options.page > 1
                            THEN Some(options.page - 1) ELSE Missing,
        hasNextPage     |-> options.page < totalPages,
        hasPreviousPage |-> options.page > 1 ]

\* hasNextPage compares with <= while nextPage compares with <
buildPaginationMeta_nextOffByOne(total, count, skip, options) ==
  LET totalPages == MathMax(MathCeilDiv(total, options.limit), 1)
      firstItem  == IF total > 0 THEN skip + 1 ELSE 0
      lastItem   == IF total > 0 THEN skip + count ELSE 0
  IN  [ total           |-> total,
        count           |-> count,
        page            |-> options.page,
        limit           |-> options.limit,
        totalPages      |-> totalPages,
        firstItem       |-> firstItem,
        lastItem        |-> lastItem,
        nextPage        |-> IF options.page < totalPages
                            THEN Some(options.page + 1) ELSE Missing,
        previousPage    |-> IF options.page > 1
                            THEN Some(options.page - 1) ELSE Missing,
        hasNextPage     |-> options.page <= totalPages,
        hasPreviousPage |-> options.page > 1 ]

(* ---- buildPaginationMeta ---------------------------------------------- *)
buildPaginationMeta(total, count, skip, options) ==
  LET totalPages == MathMax(MathCeilDiv(total, options.limit), 1)
      firstItem  == IF total > 0 THEN skip + 1 ELSE 0
      lastItem   == IF total > 0 THEN skip + count ELSE 0
  IN  [ total           |-> total,
        count           |-> count,
        page            |-> options.page,
        limit           |-> options.limit,
        totalPages      |-> totalPages,
        firstItem       |-> firstItem,
        lastItem        |-> lastItem,
        nextPage        |-> IF options.page < totalPages
                            THEN Some(options.page + 1) ELSE Missing,
        previousPage    |-> IF options.page > 1
                            THEN Some(options.page - 1) ELSE Missing,
        hasNextPage     |-> options.page < totalPages,
        hasPreviousPage |-> options.page > 1 ]

\* the raw limit, not the normalized one, used for skip and take
paginateInvoke_rawLimit(options) ==
  LET normalized == normalizePaginationOptions(options)
      rawLimit   == Coalesce(options.limit, DEFAULT_LIMIT)
      skip       == (normalized.page - 1) * rawLimit
  IN  [ normalized |-> normalized,
        skip       |-> skip,
        call       |-> [skip |-> skip, take |-> rawLimit] ]

\* total and count passed to buildPaginationMeta in the wrong order
paginateFinish_swappedArgs(options, norm, sk, items, total) ==
  LET transformedData == MapItems(items, options.transform)
      meta            == buildPaginationMeta(Len(items), total, sk, norm)
  IN  [data |-> transformedData, meta |-> meta]

(* ---- paginate --------------------------------------------------------- *)
\* first half of paginate, up to the call of the callback
paginateInvoke(options) ==
  LET normalized == normalizePaginationOptions(options)
      skip       == (normalized.page - 1) * normalized.limit
  IN  [ normalized |-> normalized,
        skip       |-> skip,
        call       |-> [skip |-> skip, take |-> normalized.limit] ]

\* second half of paginate, after the callback's promise has resolved
paginateFinish(options, norm, sk, items, total) ==
  LET transformedData == MapItems(items, options.transform)
      meta            == buildPaginationMeta(total, Len(items), sk, norm)
  IN  [data |-> transformedData, meta |-> meta]

(* ---- exceptions -------------------------------------------------------- *)
\* A thrown value.  A text (message) is the sequence of its words.
\*   class        HttpException, QueryFailedError, TimeoutError (rxjs),
\*                Error, or NonError for a thrown value that is no Error
\*   status       getStatus() of an HttpException
\*   response     getResponse() of an HttpException: "string" or "object"
\*   rawMessage   the message entry of an object response: << "none" >>,
\*                << "string", text >> or << "array", list of texts >>
\*   message      exception.message
\*   stack        exception.stack (for a QueryFailedError also its SQL text)
\*   serializable whether JSON.stringify accepts the value (it throws on a
\*                BigInt and on a circular structure)
Exception(class, status, response, rawMessage, message, stack, serializable) ==
  [ class |-> class, status |-> status, response |-> response,
    rawMessage |-> rawMessage, message |-> message, stack |-> stack,
    serializable |-> serializable ]

NoRawMessage == << "none" >>

\* new RequestTimeoutException(message)
RequestTimeoutException(message) ==
  Exception("HttpException", 408, "object", << "string", message >>, message,
            "stack-1", TRUE)

\* new NotFoundException(message)
NotFoundException(message) ==
  Exception("HttpException", 404, "object", << "string", message >>, message,
            "stack-1", TRUE)

\* the TimeoutError of rxjs
TimeoutError ==
  Exception("TimeoutError", 0, "string", NoRawMessage,
            << "Timeout", "has", "occurred" >>, "stack-1", TRUE)

PlainError(message) ==
  Exception("Error", 0, "string", NoRawMessage, message, "stack-1", TRUE)

QueryFailedError(message, stack) ==
  Exception("QueryFailedError", 0, "string", NoRawMessage, message, stack, TRUE)

\* class-validator failure: BadRequestException whose message is a list
ValidationException(list) ==
  Exception("HttpException", 400, "object", << "array", list >>,
            << "Bad", "Request", "Exception" >>, "stack-1", TRUE)

\* new BusinessException(message): super({ message, statusCode }, 422)
BusinessException(message) ==
  Exception("HttpException", 422, "object", << "string", message >>, message,
            "stack-1", TRUE)

\* new HttpException('text', status): the response is a string
StringHttpException(status, message) ==
  Exception("HttpException", status, "string", NoRawMessage, message,
            "stack-1", TRUE)

\* new HttpException({ ... no message ... }, status)
ObjectHttpException(status) ==
  Exception("HttpException", status, "object", NoRawMessage,
            << "Http", "Exception" >>, "stack-1", TRUE)

\* a thrown value that is not an Error (a string, an object, a BigInt, ...)
NonError(serializable) ==
  Exception("NonError", 0, "string", NoRawMessage, << >>, "", serializable)

(* ---- GlobalExceptionFilter -------------------------------------------- *)
\* text.includes(part)
Includes(text, part) ==
  \E i \in 0..(Len(text) - Len(part)) :
     SubSeq(text, i + 1, i + Len(part)) = part

ForeignKeyPhrase == << "violates", "foreign", "key", "constraint" >>

\* a QueryFailedError passes its own message on to the client
extractErrorInfo_leaky(e) ==
  IF e.class = "HttpException" THEN
    IF e.response = "object" THEN
      IF e.rawMessage[1] = "array"
      THEN [ statusCode |-> e.status,
             message |-> << "Validation", "failed" >>,
             errors |-> Some(e.rawMessage[2]) ]
      ELSE [ statusCode |-> e.status,
             message |-> IF e.rawMessage[1] = "string" /\ e.rawMessage[2] # << >>
                         THEN e.rawMessage[2] ELSE e.message,
             errors |-> Missing ]
    ELSE [statusCode |-> e.status, message |-> e.message, errors |-> Missing]
  ELSE IF e.class = "QueryFailedError" THEN
    IF Includes(e.message, ForeignKeyPhrase)
    THEN [ statusCode |-> 404,
           message |-> << "Referenced", "record", "not", "found" >>,
           errors |-> Missing ]
    ELSE [ statusCode |-> 400, message |-> e.message, errors |-> Missing ]
  ELSE [ statusCode |-> 500,
         message |-> << "Internal", "server", "error" >>,
         errors |-> Missing ]

\* GlobalExceptionFilter.extractErrorInfo
extractErrorInfo(e) ==
  IF e.class = "HttpException" THEN
    IF e.response = "object" THEN
      IF e.rawMessage[1] = "array"
      THEN [ statusCode |-> e.status,
             message |-> << "Validation", "failed" >>,
             errors |-> Some(e.rawMessage[2]) ]
      ELSE [ statusCode |-> e.status,
             message |-> IF e.rawMessage[1] = "string" /\ e.rawMessage[2] # << >>
                         THEN e.rawMessage[2] ELSE e.message,
             errors |-> Missing ]
    ELSE [statusCode |-> e.status, message |-> e.message, errors |-> Missing]
  ELSE IF e.class = "QueryFailedError" THEN
    IF Includes(e.message, ForeignKeyPhrase)
    THEN [ statusCode |-> 404,
           message |-> << "Referenced", "record", "not", "found" >>,
           errors |-> Missing ]
    ELSE [ statusCode |-> 400,
           message |-> << "Database", "query", "failed" >>,
           errors |-> Missing ]
  ELSE [ statusCode |-> 500,
         message |-> << "Internal", "server", "error" >>,
         errors |-> Missing ]

\* errorResponse(statusCode, message, path, errors), built at time now;
\* errors is part of the body only when it was given
errorResponse(statusCode, message, path, errors, now) ==
  [ success |-> FALSE,
    error |-> [ statusCode |-> statusCode, message |-> message,
                errors |-> errors, timestamp |-> now, path |-> path ] ]

\* the first logger.error of logError: JSON.stringify(exception) is called
\* for a thrown value that is no Error, and throws if it cannot serialize it
LogErrorThrows(e) ==
  e.class \notin {"HttpException", "QueryFailedError", "Error", "TimeoutError"}
    /\ ~e.serializable

hiddenFields == {"password", "token", "authorization"}

RedactedMarker == "***REDACTED***"

\* sanitizeRequestBody(body): body is a function from its keys to values
sanitizeRequestBody(body) ==
  [k \in DOMAIN body |-> IF k \in hiddenFields THEN RedactedMarker ELSE body[k]]

(* ---- TransformResponseInterceptor -------------------------------------- *)
\* A JavaScript value a handler can return is a record with its kind: a
\* primitive or an array ([kind |-> "string"]), a plain object with the
\* fields the interceptor looks at ([kind |-> "object", fields |-> f], f
\* from field names to the field values below), or the object literal the
\* interceptor builds ([kind |-> "envelope", data |-> v, meta |-> optional]).
FieldValues ==
  {"undefined", "null", "false", "zero", "emptyString", "true", "object"}

\* Boolean(value) of a field value
Truthy(value) == value \in {"true", "object"}

\* data && typeof data === 'object'
IsObjectLike(data) == data.kind \in {"object", "array", "envelope"}

\* key in data, for the keys 'success' and 'meta'
HasKey(data, key) ==
  CASE data.kind = "object"   -> key \in DOMAIN data.fields
    [] data.kind = "envelope" -> key = "success"
                                   \/ (key = "meta" /\ data.meta # Missing)
    [] OTHER                  -> FALSE

\* data[key] of an object that has the key
GetKey(data, key) ==
  CASE data.kind = "object"   -> data.fields[key]
    [] data.kind = "envelope" -> IF key = "success" THEN "true" ELSE data.meta[1]

\* { success: true, data, ...(meta && { meta }) }
Envelope(data, meta) ==
  [ kind |-> "envelope", data |-> data,
    meta |-> IF Truthy(meta) THEN Some(meta) ELSE Missing ]

\* every value is wrapped, enveloped or not
wrap_always(data) ==
  Envelope(data, IF IsObjectLike(data) /\ HasKey(data, "meta")
                 THEN GetKey(data, "meta") ELSE "undefined")

\* the function given to map() in TransformResponseInterceptor.intercept
wrap(data) ==
  IF /\ IsObjectLike(data)
     /\ HasKey(data, "success")
     /\ GetKey(data, "success") # "undefined"
  THEN data
  ELSE Envelope(data, IF IsObjectLike(data) /\ HasKey(data, "meta")
                      THEN GetKey(data, "meta") ELSE "undefined")

(* ---- TimeoutInterceptor ------------------------------------------------ *)
\* every error turned into a RequestTimeoutException
TimeoutCatchError_always(err) ==
  RequestTimeoutException(<< "Request", "timed", "out" >>)

\* the catchError callback of intercept
TimeoutCatchError(err) ==
  IF err.class = "TimeoutError"
  THEN RequestTimeoutException(<< "Request", "timed", "out" >>)
  ELSE err

(* ---- StorageService ---------------------------------------------------- *)
StorageKeys == {"temp/a", "docs/a"}

StorageBodies == {"pdf-1", "pdf-2"}

(* ---- RedisService ------------------------------------------------------ *)
RedisKeys == {"user:1", "user:2"}

\* JavaScript values passed to set: a number, NaN, a Date, and an object
\* with a string in a field
JsUndefined == [kind |-> "undefined"]

JsString(s) == [kind |-> "string", s |-> s]

JsNumber(n) == [kind |-> "number", n |-> n]

JsNaN == [kind |-> "NaN"]

JsNull == [kind |-> "null"]

JsDate(iso) == [kind |-> "Date", iso |-> iso]

JsObject(fields) == [kind |-> "object", fields |-> fields]

RedisValues ==
  { JsNumber(42), JsNaN, JsDate("2026-01-01T00:00:00.000Z"),
    JsObject([name |-> JsString("abc")]) }

\* JSON.stringify(value): the JSON text, as the JSON value it denotes; a
\* Date is written as its ISO string and NaN as null
RECURSIVE JSONstringify(_)
JSONstringify(value) ==
  CASE value.kind = "string" -> [json |-> "string", s |-> value.s]
    [] value.kind = "number" -> [json |-> "number", n |-> value.n]
    [] value.kind = "NaN"    -> [json |-> "null"]
    [] value.kind = "null"   -> [json |-> "null"]
    [] value.kind = "Date"   -> [json |-> "string", s |-> value.iso]
    [] value.kind = "object" ->
         [ json |-> "object",
           members |-> [k \in DOMAIN value.fields |-> JSONstringify(value.fields[k])] ]

\* JSON.parse(text)
RECURSIVE JSONparse(_)
JSONparse(text) ==
  CASE text.json = "string" -> JsString(text.s)
    [] text.json = "number" -> JsNumber(text.n)
    [] text.json = "null"   -> JsNull
    [] text.json = "object" ->
         JsObject([k \in DOMAIN text.members |-> JSONparse(text.members[k])])

\* the entry SET key serialized [EX seconds] writes at time at; ttlArg and
\* value record the arguments of RedisService.set that led to it
RedisEntry(serialized, expiresAt, value, ttlArg, at) ==
  [ serialized |-> serialized, expiresAt |-> expiresAt, value |-> value,
    ttlArg |-> ttlArg, setAt |-> at ]

\* the expiry is given also when ttl is 0
RedisServiceSet_alwaysExpires(value, ttlArg, at) ==
  LET ttl == IF ttlArg = Missing THEN DEFAULT_CACHE_TTL ELSE ttlArg[1]
  IN  RedisEntry(JSONstringify(value), Some(at + ttl), value, ttlArg, at)

\* RedisService.set(key, value, ttl) at time at: the entry it stores
RedisServiceSet(value, ttlArg, at) ==
  LET ttl == IF ttlArg = Missing THEN DEFAULT_CACHE_TTL ELSE ttlArg[1]
  IN  IF ttl > 0
      THEN RedisEntry(JSONstringify(value), Some(at + ttl), value, ttlArg, at)
      ELSE RedisEntry(JSONstringify(value), Missing, value, ttlArg, at)

\* RedisService.get(key) on the entry the client returned (Missing is null)
RedisServiceGet(entry) ==
  IF entry = Missing THEN JsUndefined ELSE JSONparse(entry[1].serialized)

(* ---- health indicators ------------------------------------------------- *)
\* the indicator functions HealthController.check hands to terminus
Indicators == {"database", "memory_heap", "redis", "smtp", "storage"}

\* what the dependency behind an indicator answers: a reply, or an error
\* whose message names the host and port
ProbeReply(text) == [ok |-> TRUE, detail |-> text]

ProbeError(text) == [ok |-> FALSE, detail |-> text]

ProbeOk(i) == ProbeReply(IF i = "redis" THEN "PONG" ELSE "ok")

ProbeOutcomes(i) ==
  { ProbeOk(i), ProbeError("connect ECONNREFUSED 10.0.0.5:587") }
  \cup (IF i = "redis" THEN { ProbeReply("LOADING") } ELSE {})

\* session.up(data) and session.down(data)
IndicatorUp(message) == [status |-> "up", message |-> message]

IndicatorDown(message) == [status |-> "down", message |-> message]

\* StorageHealthIndicator.check (the dash of the message is written -)
StorageHealthCheck(probe) ==
  IF probe.ok
  THEN IndicatorUp(Missing)
  ELSE IndicatorUp(Some("degraded - storage service unavailable"))

\* an SMTP failure is reported as down, with the error's message
SmtpHealthCheck_down(probe) ==
  IF probe.ok
  THEN IndicatorUp(Missing)
  ELSE IndicatorDown(Some(probe.detail))

\* SmtpHealthIndicator.check
SmtpHealthCheck(probe) ==
  IF probe.ok
  THEN IndicatorUp(Missing)
  ELSE IndicatorUp(Some("degraded - SMTP service unavailable"))

\* RedisHealthIndicator.check
RedisHealthCheck(probe) ==
  IF probe.ok
  THEN IF probe.detail = "PONG"
       THEN IndicatorUp(Missing)
       ELSE IndicatorDown(Some("Unexpected PING response: " \o probe.detail))
  ELSE IndicatorDown(Some(probe.detail))

\* the terminus indicators db.pingCheck and memory.checkHeap: down on failure
TerminusHealthCheck(probe) ==
  IF probe.ok THEN IndicatorUp(Missing) ELSE IndicatorDown(Some(probe.detail))

\* the indicator function registered under key i
RunIndicator(i, probe) ==
  CASE i = "storage" -> StorageHealthCheck(probe)
    [] i = "smtp"    -> SmtpHealthCheck(probe)
    [] i = "redis"   -> RedisHealthCheck(probe)
    [] OTHER         -> TerminusHealthCheck(probe)

(* ---- request.util: extractReqInfo -------------------------------------- *)
DEFAULT_GEOIP_CACHE_TTL == 3600

GEOIP_CACHE_PREFIX == "geoip:"

\* An IP address string: dotted IPv4, optionally behind the prefix ::ffff:,
\* or an IPv6 address given by its pieces between the colons.
IPv4(a, b, c, d) == [form |-> "v4", prefix |-> "", octets |-> << a, b, c, d >>]

MappedIPv4(a, b, c, d) ==
  [form |-> "v4", prefix |-> "::ffff:", octets |-> << a, b, c, d >>]

IPv6(pieces) == [form |-> "v6", pieces |-> pieces]

Loopback4 == IPv4(127, 0, 0, 1)

\* ip4ToInt: ((a << 8 + b) << 8 + c) << 8 + d as an unsigned 32-bit number,
\* held as its upper and its lower 16 bits
ip4ToInt(octets) ==
  << (octets[1] * 256 + octets[2]) % 65536, (octets[3] * 256 + octets[4]) % 65536 >>

\* x <= y for unsigned 32-bit numbers
Leq32(x, y) == x[1] < y[1] \/ (x[1] = y[1] /\ x[2] <= y[2])

PRIVATE_IPV4_RANGES ==
  { << ip4ToInt(<< 10, 0, 0, 0 >>),    ip4ToInt(<< 10, 255, 255, 255 >>) >>,
    << ip4ToInt(<< 172, 16, 0, 0 >>),  ip4ToInt(<< 172, 31, 255, 255 >>) >>,
    << ip4ToInt(<< 192, 168, 0, 0 >>), ip4ToInt(<< 192, 168, 255, 255 >>) >>,
    << ip4ToInt(<< 127, 0, 0, 0 >>),   ip4ToInt(<< 127, 255, 255, 255 >>) >> }

\* isPrivateOrLocal(ip): '::1', 'fe80:...' and '::ffff:127.0.0.1' first;
\* then the prefix ::ffff: is dropped, and what has four dotted parts is
\* compared with the private IPv4 ranges
isPrivateOrLocal(ip) ==
  IF ip.form = "v6"
  THEN ip.pieces = << "", "", "1" >> \/ ip.pieces[1] = "fe80"
  ELSE \/ ip = MappedIPv4(127, 0, 0, 1)
       \/ \E range \in PRIVATE_IPV4_RANGES :
            Leq32(range[1], ip4ToInt(ip.octets)) /\ Leq32(ip4ToInt(ip.octets), range[2])

\* new UAParser(raw).getResult(): the browser and OS names, where it finds any
UAParserResult(raw) ==
  CASE raw = "Mozilla/5.0 (Windows NT 10.0) Chrome/120.0" ->
         [browser |-> Some("Chrome"), os |-> Some("Windows")]
    [] raw = "curl/8.4.0" -> [browser |-> Missing, os |-> Missing]
    [] OTHER -> [browser |-> Missing, os |-> Missing]

\* parseUserAgent(req); userAgent is the header, if the request has it
parseUserAgent(userAgent) ==
  LET raw == IF userAgent = Missing THEN "" ELSE userAgent[1]
      parsed == UAParserResult(raw)
  IN  [ browser |-> IF parsed.browser = Missing THEN "unknown" ELSE parsed.browser[1],
        os |-> IF parsed.os = Missing THEN "unknown" ELSE parsed.os[1],
        agent |-> raw ]

\* geoip-lite lookup(ip): the database record of the address, if it has one
lookup(ip) ==
  IF ip = IPv4(8, 8, 8, 8)
  THEN Some([city |-> "Mountain View", country |-> "US", ll |-> << 37, -122 >>])
  ELSE Missing

\* the IpLocationInfo object that resolveLocation builds from lookup(ip)
LocationInfo(ip) ==
  LET geo == lookup(ip)
  IN  JsObject(
        [ city |-> JsString(IF geo = Missing THEN "unknown" ELSE geo[1].city),
          country |-> JsString(IF geo = Missing THEN "unknown" ELSE geo[1].country),
          latitude |-> IF geo = Missing THEN JsNull ELSE JsNumber(geo[1].ll[1]),
          longitude |-> IF geo = Missing THEN JsNull ELSE JsNumber(geo[1].ll[2]) ])

\* buildRedisKey(...segments): the segments joined by ':'
buildRedisKey(prefix, ip) == << prefix, ":", ip >>

\* the object extractReqInfo resolves with
ClientInfo(ip, browser, os, agent, ipInfo) ==
  [ip |-> ip, browser |-> browser, os |-> os, agent |-> agent, ipInfo |-> ipInfo]

\* the catch block of extractReqInfo
SafeDefaults(userAgent) ==
  ClientInfo(Loopback4, "unknown", "unknown",
             IF userAgent = Missing THEN "" ELSE userAgent[1], Missing)

\* steps of extractReqInfo that may fail in a call
Faults == {"none", "getClientIp", "UAParser", "lookup", "redis.get", "redis.set"}

\* One run of a call, as the record of what it returns and does:
\*   info    the ClientInfo it resolves with
\*   cache   the Redis entries after the call
\*   ops     the RedisService operations it performed
\*   lookups the number of GeoIP lookups it made
Run(info, cache, ops, lookups) ==
  [info |-> info, cache |-> cache, ops |-> ops, lookups |-> lookups]

\* resolveLocation(ip, redis, ttl) within extractReqInfo; withRedis says
\* whether redisInstance is defined; a failure of redis.get or of lookup is
\* thrown to the catch block of extractReqInfo, a failure of redis.set is
\* logged and skipped
resolveLocation(base, userAgent, withRedis, ttlArg, fault, cache, time) ==
  LET ip == base.ip
      cacheKey == buildRedisKey(GEOIP_CACHE_PREFIX, ip)
      cached == RedisServiceGet(cache[cacheKey])
      info == LocationInfo(ip)
      ttl == IF ttlArg = Missing THEN Some(DEFAULT_GEOIP_CACHE_TTL) ELSE ttlArg
      found == [base EXCEPT !.ipInfo = Some(info)]
  IN  IF withRedis /\ fault = "redis.get"
      THEN Run(SafeDefaults(userAgent), cache, << "get" >>, 0)
      ELSE IF withRedis /\ cached # JsUndefined
      THEN Run([base EXCEPT !.ipInfo = Some(cached)], cache, << "get" >>, 0)
      ELSE IF fault = "lookup"
      THEN Run(SafeDefaults(userAgent), cache,
               IF withRedis THEN << "get" >> ELSE << >>, 1)
      ELSE IF ~withRedis
      THEN Run(found, cache, << >>, 1)
      ELSE IF fault = "redis.set"
      THEN Run(found, cache, << "get", "set" >>, 1)
      ELSE Run(found,
               [cache EXCEPT ![cacheKey] = Some(RedisServiceSet(info, ttl, time))],
               << "get", "set" >>, 1)

\* the location is looked up and cached without reading the cache first
extractReqInfo_noCacheRead(req, opts, redisGiven, fault, cache, time) ==
  LET rawIp == IF req.clientIp = Missing THEN Loopback4 ELSE req.clientIp[1]
      ip == IF isPrivateOrLocal(rawIp) THEN Loopback4 ELSE rawIp
      ua == parseUserAgent(req.userAgent)
      base == ClientInfo(ip, ua.browser, ua.os, ua.agent, Missing)
      cacheKey == buildRedisKey(GEOIP_CACHE_PREFIX, ip)
      ttl == IF opts.cacheTtl = Missing THEN Some(DEFAULT_GEOIP_CACHE_TTL)
             ELSE opts.cacheTtl
  IN  IF fault \in {"getClientIp", "UAParser"}
      THEN Run(SafeDefaults(req.userAgent), cache, << >>, 0)
      ELSE IF ~opts.extractLocationInfo
      THEN Run(base, cache, << >>, 0)
      ELSE IF fault = "lookup"
      THEN Run(SafeDefaults(req.userAgent), cache, << >>, 1)
      ELSE IF opts.useCache /\ redisGiven /\ fault # "redis.set"
      THEN Run([base EXCEPT !.ipInfo = Some(LocationInfo(ip))],
               [cache EXCEPT ![cacheKey] =
                  Some(RedisServiceSet(LocationInfo(ip), ttl, time))],
               << "set" >>, 1)
      ELSE Run([base EXCEPT !.ipInfo = Some(LocationInfo(ip))], cache,
               IF opts.useCache /\ redisGiven THEN << "set" >> ELSE << >>, 1)

\* extractReqInfo(req, options, redis), called at the given time on the
\* given cache, with the given step failing (if it is reached)
extractReqInfo(req, opts, redisGiven, fault, cache, time) ==
  LET rawIp == IF req.clientIp = Missing THEN Loopback4 ELSE req.clientIp[1]
      ip == IF isPrivateOrLocal(rawIp) THEN Loopback4 ELSE rawIp
      ua == parseUserAgent(req.userAgent)
      base == ClientInfo(ip, ua.browser, ua.os, ua.agent, Missing)
  IN  IF fault \in {"getClientIp", "UAParser"}
      THEN Run(SafeDefaults(req.userAgent), cache, << >>, 0)
      ELSE IF ~opts.extractLocationInfo
      THEN Run(base, cache, << >>, 0)
      ELSE resolveLocation(base, req.userAgent, opts.useCache /\ redisGiven,
                           opts.cacheTtl, fault, cache, time)

\* what getClientIp(req) can return: nothing, public, private, loopback,
\* link-local and unique-local addresses
ClientIps ==
  { Missing,
    Some(IPv4(8, 8, 8, 8)),
    Some(IPv4(203, 0, 113, 5)),
    Some(IPv4(10, 1, 2, 3)),
    Some(IPv4(172, 31, 255, 255)),
    Some(IPv4(172, 32, 0, 1)),
    Some(IPv4(192, 168, 1, 1)),
    Some(IPv4(127, 0, 0, 1)),
    Some(MappedIPv4(127, 0, 0, 1)),
    Some(MappedIPv4(10, 0, 0, 1)),
    Some(IPv6(<< "", "", "1" >>)),
    Some(IPv6(<< "fe80", "", "1" >>)),
    Some(IPv6(<< "fd12", "3456", "", "1" >>)),
    Some(IPv6(<< "2001", "4860", "", "8888" >>)) }

UserAgents == {Missing, Some("Mozilla/5.0 (Windows NT 10.0) Chrome/120.0"),
               Some("curl/8.4.0")}

\* seconds between two observations of the cache clock
GeoTickSeconds == 1800

\* the cache clock stops here
MaxGeoClock == 3600

CacheTtls == {Missing, Some(GeoTickSeconds)}

ReqOptions ==
  [extractLocationInfo : BOOLEAN, useCache : BOOLEAN, cacheTtl : CacheTtls]

\* the addresses extractReqInfo can report, and their cache keys
ReportedIps ==
  { IF ip = Missing \/ isPrivateOrLocal(ip[1]) THEN Loopback4 ELSE ip[1] :
      ip \in ClientIps }

GeoCacheKeys == { buildRedisKey(GEOIP_CACHE_PREFIX, ip) : ip \in ReportedIps }

ReqCall(req, opts, redisGiven, fault, at) ==
  [req |-> req, options |-> opts, redis |-> redisGiven, fault |-> fault, at |-> at]

NoReqCall ==
  ReqCall([clientIp |-> Missing, userAgent |-> Missing],
          [extractLocationInfo |-> FALSE, useCache |-> FALSE, cacheTtl |-> Missing],
          FALSE, "none", 0)

(* ---- orm-filter.util: buildRangeFilter --------------------------------- *)
\* TypeORM find operators, and a plain value (matched by equality)
Between(from, to) == [op |-> "Between", from |-> from, to |-> to]

MoreThanOrEqual(value) == [op |-> "MoreThanOrEqual", value |-> value]

MoreThan(value) == [op |-> "MoreThan", value |-> value]

LessThanOrEqual(value) == [op |-> "LessThanOrEqual", value |-> value]

LessThan(value) == [op |-> "LessThan", value |-> value]

PlainValue(value) == [op |-> "value", value |-> value]

NoCondition == [op |-> "undefined"]

\* whether a field value satisfies a condition in the query TypeORM builds
\* (BETWEEN includes both ends)
Satisfies(x, condition) ==
  CASE condition.op = "Between" -> condition.from <= x /\ x <= condition.to
    [] condition.op = "MoreThanOrEqual" -> x >= condition.value
    [] condition.op = "MoreThan" -> x > condition.value
    [] condition.op = "LessThanOrEqual" -> x <= condition.value
    [] condition.op = "LessThan" -> x < condition.value
    [] condition.op = "value" -> x = condition.value
    [] OTHER -> TRUE

\* buildRangeFilter(exactValue, minValue, maxValue, { inclusive })
buildRangeFilter(exactValue, minValue, maxValue, inclusiveOption) ==
  LET inclusive == IF inclusiveOption = Missing THEN TRUE ELSE inclusiveOption[1]
  IN  IF exactValue # Missing THEN PlainValue(exactValue[1])
      ELSE IF minValue # Missing /\ maxValue # Missing
      THEN IF inclusive
           THEN Between(minValue[1], maxValue[1])
           ELSE Between(minValue[1], maxValue[1])
      ELSE IF minValue # Missing
      THEN IF inclusive THEN MoreThanOrEqual(minValue[1]) ELSE MoreThan(minValue[1])
      ELSE IF maxValue # Missing
      THEN IF inclusive THEN LessThanOrEqual(maxValue[1]) ELSE LessThan(maxValue[1])
      ELSE NoCondition

RangeFieldValues == 0..MaxFieldValue

OptionalFieldValues == {Missing} \cup { Some(v) : v \in RangeFieldValues }

(* ---- enum.util: randomInt ---------------------------------------------- *)
\* crypto.randomInt(min, max): the integers n it can return, min <= n < max
cryptoRandomInt(min, max) == min..(max - 1)

\* randomInt(min, max) for integers (Math.ceil and Math.floor leave them as
\* they are): the results of cryptoRandomInt(lower, upper + 1)
randomInt(min, max) == cryptoRandomInt(min, max + 1)

(* ---- orm-filter.util: mergeSearchConditions ---------------------------- *)
\* A FindOptionsWhere object is a function from its field names to the
\* condition on each field.
\* { ...first, ...second }: the fields of both, second winning on a field
\* that both have
ObjectSpread(first, second) ==
  [k \in (DOMAIN first) \cup (DOMAIN second) |->
     IF k \in DOMAIN second THEN second[k] ELSE first[k]]

\* mergeSearchConditions(andFilters, searchConditions); searchConditions is
\* Missing when undefined, else the list
mergeSearchConditions(andFilters, searchConditions) ==
  IF searchConditions = Missing \/ Len(searchConditions[1]) = 0
  THEN [kind |-> "object", filter |-> andFilters]
  ELSE [ kind |-> "array",
         filters |-> [i \in 1..Len(searchConditions[1]) |->
                        ObjectSpread(andFilters, searchConditions[1][i])] ]

WhereFields == {"active", "email"}

\* conditions of AND filters and of search conditions
AndConditions == {"Equal(true)", "Equal('a@b.c')"}

SearchConditionValues == {"ILike('%John%')"}

AndFilterObjects ==
  UNION { [fields -> AndConditions] : fields \in SUBSET WhereFields }

SearchConditionObjects ==
  UNION { [fields -> SearchConditionValues] : fields \in (SUBSET WhereFields) \ {{}} }

SearchConditionLists ==
  UNION { [1..n -> SearchConditionObjects] : n \in 0..MaxSearchConditions }

(* ---- the in-memory fetch callback of PAGINATION.md ---------------------- *)
\* list.slice(start, end) for 0 <= start <= end
ArraySlice(list, start, end) ==
  SubSeq(list, start + 1, MathMin(end, Len(list)))

\* (skip, take) => Promise.resolve([allItems.slice(skip, skip + take),
\*                                  allItems.length])
InMemoryFetch(list, skipArg, take) ==
  [items |-> ArraySlice(list, skipArg, skipArg + take), total |-> Len(list)]

(* ---- state ------------------------------------------------------------ *)
VARIABLES
  \* -- one paginate call
  pc,          \* position of the paginate call: idle, awaiting, returned, rejected
  options,     \* the raw options object passed to paginate
  normalized,  \* const normalized
  skip,        \* const skip
  fetchCalls,  \* the callback invocations made by this paginate call, in order
  callback,    \* the callback: notCalled, pending, resolved, rejected, threw
  fetched,     \* [items, total] the callback's promise resolved with, if it did
  thrown,      \* what the callback threw or rejected with, if it did
  result,      \* the value paginate's promise resolved with
  failure,     \* the reason paginate's promise rejected with
  itemsAfter,  \* contents of the array the callback returned, once paginate is done
  \* -- the Pagination decorator of a controller method
  dpc,          \* idle, decorated, handedOver
  query,        \* request.query.page and request.query.limit
  normalizeArg, \* the object the decorator passes to normalizePaginationOptions
  pagination,   \* the decorator's return value
  \* -- several paginate calls in flight at once
  inflight,     \* per call: its position, its locals, its callback's outcome
  \* -- one request under TimeoutInterceptor
  tpc,          \* idle, waiting, done
  timeoutMs,    \* this.timeoutMs
  clock,        \* milliseconds since the handler was subscribed to
  handlerEvent, \* what the handler produced (a value or an error) and when
  outcome,      \* what the intercepted observable delivered downstream
  \* -- the request whose exception GlobalExceptionFilter.catch handles
  fpc,          \* idle, responded, crashed (catch itself threw)
  exception,    \* the value that was thrown
  request,      \* its url and body
  sent,         \* the response.status(..).json(..) calls made for it
  errorLog,     \* the logger.error lines written for it
  debugLog,     \* the request body written by logger.debug, if any
  \* -- a response passing through TransformResponseInterceptor
  wpc,          \* idle, done
  handlerResult,\* the value next.handle() emitted
  envelope,     \* the value the interceptor passed on
  \* -- StorageService.move on a bucket
  spc,          \* position of move: idle, copying, deleting, done, failed
  bucket,       \* the object stored under each key of the bucket, if any
  moveArgs,     \* sourceKey and destinationKey of the move
  movedObject,  \* the object under sourceKey when move was called, if any
  commands,     \* the commands move has sent to the S3 client, in order
  moveResult,   \* the key move resolved with
  moveError,    \* the command whose failure move rejected with
  \* -- a Redis server used through RedisService
  rpc,          \* the last RedisService operation: idle, set, got, deleted, tick
  rclock,       \* seconds on the Redis server clock
  store,        \* per key, the entry Redis holds, if any
  getCall,      \* key and return value of the last get
  \* -- GET /health
  hpc,          \* position of GET /health: idle, running, done
  probes,       \* per indicator, what its dependency answers during this check
  indicatorResults,\* per indicator, the result it returned, once it has
  healthStatus, \* HTTP status of the /health response, once sent
  \* -- calls of extractReqInfo
  qpc,          \* idle, or resolved once a call of extractReqInfo has returned
  qclock,       \* seconds on the clock of the Redis holding the GeoIP cache
  geoCache,     \* per cache key, the entry Redis holds, if any
  reqCall,      \* the arguments of the last call and the step that failed in it
  clientInfo,   \* what the last call resolved with
  redisOps,     \* the RedisService operations the last call performed
  lookups,      \* the number of GeoIP lookups the last call made
  \* -- a call of buildRangeFilter
  bpc,          \* idle, or returned once buildRangeFilter has been called
  rangeArgs,    \* exactValue, minValue, maxValue and options.inclusive of the call
  rangeFilter,  \* the condition the call returned
  \* -- a call of randomInt
  npc,          \* idle, or returned once randomInt has been called
  randomArgs,   \* min and max of the call
  randomResult, \* the integer the call returned
  \* -- a call of mergeSearchConditions
  mpc,          \* idle, or returned once mergeSearchConditions has been called
  mergeArgs,    \* andFilters and searchConditions of the call
  merged,       \* the where clause the call returned
  \* -- paginate over an in-memory list
  allItems      \* the list behind the in-memory fetch callback

pvars == << pc, options, normalized, skip, fetchCalls, callback, fetched,
            thrown, result, failure, itemsAfter >>

dvars == << dpc, query, normalizeArg, pagination >>

cvars == << inflight >>

tvars == << tpc, timeoutMs, clock, handlerEvent, outcome >>

fvars == << fpc, exception, request, sent, errorLog, debugLog >>

wvars == << wpc, handlerResult, envelope >>

svars == << spc, bucket, moveArgs, movedObject, commands, moveResult, moveError >>

rvars == << rpc, rclock, store, getCall >>

hvars == << hpc, probes, indicatorResults, healthStatus >>

qvars == << qpc, qclock, geoCache, reqCall, clientInfo, redisOps, lookups >>

bvars == << bpc, rangeArgs, rangeFilter >>

nvars == << npc, randomArgs, randomResult >>

mvars == << mpc, mergeArgs, merged >>

lvars == << allItems >>

vars == << pvars, dvars, cvars, tvars, fvars, wvars, svars, rvars, hvars, qvars, bvars, nvars, mvars, lvars >>

\* the variables a component leaves alone
notPagination == << dvars, cvars, tvars, fvars, wvars, svars, rvars, hvars, qvars, bvars, nvars, mvars, lvars >>

notDecorator == << cvars, tvars, fvars, wvars, svars, rvars, hvars, qvars, bvars, nvars, mvars, lvars >>

notConcurrent == << pvars, dvars, tvars, fvars, wvars, svars, rvars, hvars, qvars, bvars, nvars, mvars, lvars >>

notTimeout == << pvars, dvars, cvars, fvars, wvars, svars, rvars, hvars, qvars, bvars, nvars, mvars, lvars >>

notFilter == << pvars, dvars, cvars, tvars, wvars, svars, rvars, hvars, qvars, bvars, nvars, mvars, lvars >>

notTransform == << pvars, dvars, cvars, tvars, fvars, svars, rvars, hvars, qvars, bvars, nvars, mvars, lvars >>

notStorage == << pvars, dvars, cvars, tvars, fvars, wvars, rvars, hvars, qvars, bvars, nvars, mvars, lvars >>

notRedis == << pvars, dvars, cvars, tvars, fvars, wvars, svars, hvars, qvars, bvars, nvars, mvars, lvars >>

notHealth == << pvars, dvars, cvars, tvars, fvars, wvars, svars, rvars, qvars, bvars, nvars, mvars, lvars >>

notReqInfo == << pvars, dvars, cvars, tvars, fvars, wvars, svars, rvars, hvars, bvars, nvars, mvars, lvars >>

notRangeFilter == << pvars, dvars, cvars, tvars, fvars, wvars, svars, rvars, hvars, qvars, nvars, mvars, lvars >>

notRandomInt == << pvars, dvars, cvars, tvars, fvars, wvars, svars, rvars, hvars, qvars, bvars, mvars, lvars >>

notMerge == << pvars, dvars, cvars, tvars, fvars, wvars, svars, rvars, hvars, qvars, bvars, nvars, lvars >>

notListBacked == << dvars, cvars, tvars, fvars, wvars, svars, rvars, hvars, qvars, bvars, nvars, mvars >>

NoOptions == [page |-> Missing, limit |-> Missing, transform |-> FALSE]

NoQuery == [page |-> Missing, limit |-> Missing]

\* number of paginate calls that may be in flight together
NumCalls == 2

Calls == 1..NumCalls

\* a paginate call that has not started
IdleCall ==
  [ pc |-> "idle", options |-> NoOptions,
    normalized |-> normalizePaginationOptions(NoOptions), skip |-> 0,
    fetchCalls |-> << >>, fetched |-> Missing, thrown |-> Missing,
    result |-> Missing, failure |-> Missing ]

Init ==
  /\ pc = "idle"
  /\ options = NoOptions
  /\ normalized = normalizePaginationOptions(NoOptions)
  /\ skip = 0
  /\ fetchCalls = << >>
  /\ callback = "notCalled"
  /\ fetched = Missing
  /\ thrown = Missing
  /\ result = Missing
  /\ failure = Missing
  /\ itemsAfter = Missing
  /\ dpc = "idle"
  /\ query = NoQuery
  /\ normalizeArg = Pagination(NoQuery).arg
  /\ pagination = Pagination(NoQuery).out
  /\ inflight = [i \in Calls |-> IdleCall]
  /\ tpc = "idle"
  /\ timeoutMs = DEFAULT_TIMEOUT_MS
  /\ clock = 0
  /\ handlerEvent = Missing
  /\ outcome = Missing
  /\ fpc = "idle"
  /\ exception = PlainError(<< "boom" >>)
  /\ request = [url |-> "/api/v1/users", body |-> << >>]
  /\ sent = << >>
  /\ errorLog = << >>
  /\ debugLog = Missing
  /\ wpc = "idle"
  /\ handlerResult = [kind |-> "undefined"]
  /\ envelope = [kind |-> "undefined"]
  /\ spc = "idle"
  /\ bucket = [k \in StorageKeys |-> Missing]
  /\ moveArgs = [sourceKey |-> "temp/a", destinationKey |-> "docs/a"]
  /\ movedObject = Missing
  /\ commands = << >>
  /\ moveResult = Missing
  /\ moveError = Missing
  /\ rpc = "idle"
  /\ rclock = 0
  /\ store = [k \in RedisKeys |-> Missing]
  /\ getCall = [key |-> "user:1", value |-> [kind |-> "undefined"]]
  /\ hpc = "idle"
  /\ probes = [i \in Indicators |-> ProbeOk(i)]
  /\ indicatorResults = [i \in Indicators |-> Missing]
  /\ healthStatus = Missing
  /\ qpc = "idle"
  /\ qclock = 0
  /\ geoCache = [k \in GeoCacheKeys |-> Missing]
  /\ reqCall = NoReqCall
  /\ clientInfo = SafeDefaults(Missing)
  /\ redisOps = << >>
  /\ lookups = 0
  /\ bpc = "idle"
  /\ rangeArgs = [exactValue |-> Missing, minValue |-> Missing, maxValue |-> Missing, inclusive |-> Missing]
  /\ rangeFilter = [op |-> "undefined"]
  /\ npc = "idle"
  /\ randomArgs = [min |-> 0, max |-> 1]
  /\ randomResult = 0
  /\ mpc = "idle"
  /\ mergeArgs = [andFilters |-> << >>, searchConditions |-> Missing]
  /\ merged = [kind |-> "object", filter |-> << >>]
  /\ allItems = << >>

(* ---- paginate, as a process ------------------------------------------- *)
\* paginate(opts, callback) runs up to `await callback(skip, limit)`:
\* the callback either hands back a pending promise, or throws at once and
\* the async function's promise rejects with what was thrown
PaginateStart(opts) ==
  /\ LET inv == paginateInvoke(opts)
     IN  /\ options' = opts
         /\ normalized' = inv.normalized
         /\ skip' = inv.skip
         /\ fetchCalls' = Append(fetchCalls, inv.call)
  /\ \/ /\ callback' = "pending"
        /\ pc' = "awaiting"
        /\ UNCHANGED << thrown, failure >>
     \/ \E e \in FetchErrors :
          /\ callback' = "threw"
          /\ thrown' = Some(e)
          /\ failure' = Some(e)
          /\ pc' = "rejected"
  /\ UNCHANGED << fetched, result, itemsAfter >>

\* a caller invokes paginate with raw options
PaginateCall ==
  /\ pc = "idle"
  /\ \E p \in PageInputs, l \in LimitInputs, t \in BOOLEAN :
       PaginateStart([page |-> p, limit |-> l, transform |-> t])
  /\ UNCHANGED notPagination

\* paginate writing its normalized values and the mapped items back into
\* the objects it was given
PaginateResume_inPlace ==
  /\ pc = "awaiting"
  /\ callback = "pending"
  /\ \E items \in ItemLists, total \in 0..MaxTotal :
       /\ fetched' = Some([items |-> items, total |-> total])
       /\ result' = Some(paginateFinish(options, normalized, skip, items, total))
       /\ itemsAfter' = Some(MapItems(items, options.transform))
  /\ options' = [options EXCEPT !.page = Some(normalized.page),
                                !.limit = Some(normalized.limit)]
  /\ callback' = "resolved"
  /\ pc' = "returned"
  /\ UNCHANGED << normalized, skip, fetchCalls, thrown, failure >>
  /\ UNCHANGED notPagination

\* the callback's promise resolves with [items, total]; paginate continues
\* after the await and returns { data, meta }; it only reads options and
\* items (items.map builds a new array)
PaginateResume ==
  /\ pc = "awaiting"
  /\ callback = "pending"
  /\ \E items \in ItemLists, total \in 0..MaxTotal :
       /\ fetched' = Some([items |-> items, total |-> total])
       /\ result' = Some(paginateFinish(options, normalized, skip, items, total))
       /\ itemsAfter' = Some(items)
  /\ callback' = "resolved"
  /\ pc' = "returned"
  /\ UNCHANGED << options, normalized, skip, fetchCalls, thrown, failure >>
  /\ UNCHANGED notPagination

\* a retry added: on a rejection the callback is invoked a second time
PaginateReject_retry ==
  /\ pc = "awaiting"
  /\ callback = "pending"
  /\ Len(fetchCalls) < 2
  /\ \E e \in FetchErrors : thrown' = Some(e)
  /\ fetchCalls' = Append(fetchCalls, [skip |-> skip, take |-> normalized.limit])
  /\ UNCHANGED << pc, options, normalized, skip, callback, fetched, result,
                  failure, itemsAfter >>
  /\ UNCHANGED notPagination

\* the callback's promise rejects; the await rethrows inside paginate, which
\* has no try/catch, so paginate's promise rejects with the same reason
PaginateReject ==
  /\ pc = "awaiting"
  /\ callback = "pending"
  /\ \E e \in FetchErrors :
       /\ thrown' = Some(e)
       /\ failure' = Some(e)
  /\ callback' = "rejected"
  /\ pc' = "rejected"
  /\ UNCHANGED << options, normalized, skip, fetchCalls, fetched, result,
                  itemsAfter >>
  /\ UNCHANGED notPagination

Next == PaginateCall \/ PaginateResume \/ PaginateReject

Spec == Init /\ [][Next]_vars

(* ---- a controller method with @Pagination() --------------------------- *)
\* the decorator reads ?page= and ?limit= and returns normalized options
PaginationDecorator ==
  /\ dpc = "idle"
  /\ \E qp \in QueryValues, ql \in QueryValues :
       LET q == [page |-> qp, limit |-> ql]
           r == Pagination(q)
       IN  /\ query' = q
           /\ normalizeArg' = r.arg
           /\ pagination' = r.out
  /\ dpc' = "decorated"
  /\ UNCHANGED pvars
  /\ UNCHANGED notDecorator

\* findAll(@Pagination() pagination) calls paginate(pagination, callback)
ControllerFindAll ==
  /\ dpc = "decorated"
  /\ pc = "idle"
  /\ PaginateStart([page |-> Some(pagination.page),
                    limit |-> Some(pagination.limit), transform |-> FALSE])
  /\ dpc' = "handedOver"
  /\ UNCHANGED << query, normalizeArg, pagination >>
  /\ UNCHANGED notDecorator

\* the continuation of the paginate call is the subject of Spec
DecoratorNext == PaginationDecorator \/ ControllerFindAll

SpecDecorator == Init /\ [][DecoratorNext]_vars

(* ---- concurrent paginate calls ----------------------------------------- *)
\* options and callback results of the concurrent calls
ConcOptions ==
  { NoOptions,
    [page |-> Some(2), limit |-> Some(2), transform |-> TRUE],
    [page |-> Some(2), limit |-> Some(2), transform |-> FALSE],
    [page |-> Some(0 - 1), limit |-> Some(OversizedLimit), transform |-> FALSE] }

ConcFetchResults ==
  { [items |-> << >>, total |-> 0],
    [items |-> << 1, 2 >>, total |-> 5],
    [items |-> << 2 >>, total |-> 1] }

\* call i starts: its own normalized and skip, its own callback invocation
ConcCall(i) ==
  /\ inflight[i].pc = "idle"
  /\ \E opts \in ConcOptions :
       LET inv == paginateInvoke(opts)
           started == [inflight[i] EXCEPT !.options = opts,
                                          !.normalized = inv.normalized,
                                          !.skip = inv.skip,
                                          !.fetchCalls = << inv.call >>]
       IN  \/ inflight' = [inflight EXCEPT ![i] =
                             [started EXCEPT !.pc = "awaiting"]]
           \/ \E e \in FetchErrors :
                inflight' = [inflight EXCEPT ![i] =
                               [started EXCEPT !.pc = "rejected",
                                               !.thrown = Some(e),
                                               !.failure = Some(e)]]
  /\ UNCHANGED notConcurrent

\* normalized and skip kept in variables shared by all calls: a call that
\* resumes sees the values written by some other started call
ConcResume_sharedLocals(i) ==
  /\ inflight[i].pc = "awaiting"
  /\ \E fr \in ConcFetchResults, j \in Calls :
       /\ inflight[j].pc # "idle"
       /\ inflight' = [inflight EXCEPT ![i] =
            [inflight[i] EXCEPT
               !.pc = "returned",
               !.fetched = Some(fr),
               !.result = Some(paginateFinish(inflight[i].options,
                                 inflight[j].normalized, inflight[j].skip,
                                 fr.items, fr.total))]]
  /\ UNCHANGED notConcurrent

\* the callback of call i resolves, whatever the other calls are doing;
\* the continuation uses the locals of call i
ConcResume(i) ==
  /\ inflight[i].pc = "awaiting"
  /\ \E fr \in ConcFetchResults :
       inflight' = [inflight EXCEPT ![i] =
         [inflight[i] EXCEPT
            !.pc = "returned",
            !.fetched = Some(fr),
            !.result = Some(paginateFinish(inflight[i].options,
                              inflight[i].normalized, inflight[i].skip,
                              fr.items, fr.total))]]
  /\ UNCHANGED notConcurrent

\* the callback of call i rejects
ConcReject(i) ==
  /\ inflight[i].pc = "awaiting"
  /\ \E e \in FetchErrors :
       inflight' = [inflight EXCEPT ![i] =
         [inflight[i] EXCEPT !.pc = "rejected", !.thrown = Some(e),
                             !.failure = Some(e)]]
  /\ UNCHANGED notConcurrent

ConcurrentNext ==
  \E i \in Calls : ConcCall(i) \/ ConcResume(i) \/ ConcReject(i)

SpecConcurrent == Init /\ [][ConcurrentNext]_vars

(* ---- a request under TimeoutInterceptor -------------------------------- *)
HandlerValues == {"value-1", "value-2", "value-3", "value-4", "value-5"}

HandlerErrors ==
  { TimeoutError,
    NotFoundException(<< "User", "not", "found" >>),
    PlainError(<< "boom" >>),
    QueryFailedError(<< "syntax", "error" >>, "stack-1") }

\* new TimeoutInterceptor(timeoutMs?) and intercept(): next.handle() is
\* subscribed to and the timer of timeout(this.timeoutMs) is armed
Intercept ==
  /\ tpc = "idle"
  /\ \E configured \in {Missing, Some(CustomTimeoutMs)} :
       timeoutMs' = Coalesce(configured, DEFAULT_TIMEOUT_MS)
  /\ clock' = 0
  /\ tpc' = "waiting"
  /\ UNCHANGED << handlerEvent, outcome >>
  /\ UNCHANGED notTimeout

\* time passes while the handler works; the timer is due at timeoutMs
Tick ==
  /\ tpc = "waiting"
  /\ clock < timeoutMs
  /\ clock' = MathMin(clock + TickMs, timeoutMs)
  /\ UNCHANGED << tpc, timeoutMs, handlerEvent, outcome >>
  /\ UNCHANGED notTimeout

\* the handler emits its response: timeout() passes it on, catchError is
\* not involved
HandlerResponds ==
  /\ tpc = "waiting"
  /\ \E v \in HandlerValues :
       /\ handlerEvent' = Some([kind |-> "next", value |-> v, at |-> clock])
       /\ outcome' = Some([kind |-> "next", value |-> v])
  /\ tpc' = "done"
  /\ UNCHANGED << timeoutMs, clock >>
  /\ UNCHANGED notTimeout

\* the handler fails: the error reaches catchError
HandlerFails ==
  /\ tpc = "waiting"
  /\ \E e \in HandlerErrors :
       /\ handlerEvent' = Some([kind |-> "error", error |-> e, at |-> clock])
       /\ outcome' = Some([kind |-> "error", error |-> TimeoutCatchError(e)])
  /\ tpc' = "done"
  /\ UNCHANGED << timeoutMs, clock >>
  /\ UNCHANGED notTimeout

\* the timer fires: timeout() unsubscribes from the handler and errors with
\* a TimeoutError, which reaches catchError
TimerFires ==
  /\ tpc = "waiting"
  /\ clock >= timeoutMs
  /\ outcome' = Some([kind |-> "error", error |-> TimeoutCatchError(TimeoutError)])
  /\ tpc' = "done"
  /\ UNCHANGED << timeoutMs, clock, handlerEvent >>
  /\ UNCHANGED notTimeout

TimeoutNext ==
  Intercept \/ Tick \/ HandlerResponds \/ HandlerFails \/ TimerFires

\* time passes and a due timer fires
SpecTimeout ==
  Init /\ [][TimeoutNext]_vars /\ WF_vars(Tick) /\ WF_vars(TimerFires)

(* ---- a request that ends in GlobalExceptionFilter.catch ----------------- *)
FilterExceptions ==
  { NotFoundException(<< "User", "not", "found" >>),
    ValidationException(<< << "title", "should", "not", "be", "empty" >>,
                           << "price", "must", "be", "positive" >> >>),
    ValidationException(<< >>),
    BusinessException(<< "Insufficient", "account", "balance" >>),
    BusinessException(<< >>),
    StringHttpException(403, << "Forbidden" >>),
    ObjectHttpException(409),
    RequestTimeoutException(<< "Request", "timed", "out" >>),
    TimeoutError,
    PlainError(<< "boom" >>),
    PlainError(<< "update", "violates", "foreign", "key", "constraint" >>),
    NonError(TRUE),
    NonError(FALSE) }
  \cup
  { QueryFailedError(m, st) :
      m \in { << "insert", "violates", "foreign", "key", "constraint", "fk_1" >>,
              << "duplicate", "key", "violates", "unique", "constraint" >>,
              << "syntax", "error", "near", "SELEC" >> },
      st \in {"stack-1", "stack-2"} }

BodyFields == {"email", "password", "token", "secret", "authorization"}

BodyValues == {"hunter2"}

\* request.body: any set of the fields, each with a value; empty when the
\* request has no body
RequestBodies ==
  UNION { [fields -> BodyValues] : fields \in SUBSET BodyFields }

Timestamps == {"2026-01-01T00:00:00.000Z", "2026-01-01T00:00:01.000Z"}

\* catch(exception, host) for a new request: extractErrorInfo, logError,
\* then response.status(statusCode).json(body); when logError throws,
\* catch ends there and nothing is sent
FilterCatch ==
  /\ \E e \in FilterExceptions, body \in RequestBodies, now \in Timestamps :
       LET info == extractErrorInfo(e)
           url  == "/api/v1/users"
       IN  /\ exception' = e
           /\ request' = [url |-> url, body |-> body]
           /\ IF LogErrorThrows(e)
              THEN /\ fpc' = "crashed"
                   /\ errorLog' = << >>
                   /\ debugLog' = Missing
                   /\ sent' = << >>
              ELSE /\ fpc' = "responded"
                   /\ errorLog' = << [context |-> url, class |-> e.class,
                                      message |-> e.message, stack |-> e.stack] >>
                   /\ debugLog' = IF DOMAIN body # {}
                                  THEN Some(sanitizeRequestBody(body))
                                  ELSE Missing
                   /\ sent' = << [ status |-> info.statusCode,
                                   body |-> errorResponse(info.statusCode,
                                              info.message, url, info.errors,
                                              now) ] >>
  /\ UNCHANGED notFilter

FilterNext == FilterCatch

SpecFilter == Init /\ [][FilterNext]_vars

(* ---- a response passing through TransformResponseInterceptor ---------- *)
ResultFields == {"success", "meta", "id"}

\* what a handler can return: primitives, arrays, and objects with any of
\* the fields success, meta and id
HandlerResults ==
  { [kind |-> k] : k \in {"undefined", "null", "number", "string", "array"} }
  \cup
  { [kind |-> "object", fields |-> f] :
      f \in UNION { [keys -> FieldValues] : keys \in SUBSET ResultFields } }

\* intercept: next.handle() emits a value and map() passes on wrap(value)
TransformIntercept ==
  /\ \E data \in HandlerResults :
       /\ handlerResult' = data
       /\ envelope' = wrap(data)
  /\ wpc' = "done"
  /\ UNCHANGED notTransform

\* a response that left the interceptor is emitted through it once more
TransformAgain ==
  /\ wpc = "done"
  /\ handlerResult # envelope
  /\ handlerResult' = envelope
  /\ envelope' = wrap(envelope)
  /\ wpc' = "done"
  /\ UNCHANGED notTransform

TransformNext == TransformIntercept \/ TransformAgain

SpecTransform == Init /\ [][TransformNext]_vars

(* ---- StorageService.move on a bucket ----------------------------------- *)
\* upload(options): PutObject stores the body under the key
StorageUpload ==
  /\ spc \in {"idle", "done", "failed"}
  /\ \E key \in StorageKeys, body \in StorageBodies :
       bucket' = [bucket EXCEPT ![key] = Some(body)]
  /\ spc' = "idle"
  /\ commands' = << >>
  /\ moveResult' = Missing
  /\ moveError' = Missing
  /\ UNCHANGED << moveArgs, movedObject, notStorage >>

\* move(sourceKey, destinationKey) is called: copy sends CopyObject
MoveCall ==
  /\ spc \in {"idle", "done", "failed"}
  /\ \E sourceKey \in StorageKeys, destinationKey \in StorageKeys :
       /\ moveArgs' = [sourceKey |-> sourceKey, destinationKey |-> destinationKey]
       /\ movedObject' = bucket[sourceKey]
  /\ commands' = << "CopyObject" >>
  /\ spc' = "copying"
  /\ moveResult' = Missing
  /\ moveError' = Missing
  /\ UNCHANGED << bucket, notStorage >>

\* CopyObject succeeds: S3 copies an existing object to another key (a copy
\* of an object onto itself with nothing changed is refused); copy returns
\* and move goes on with delete(sourceKey), which sends DeleteObject
\* immediately
CopySucceeds ==
  /\ spc = "copying"
  /\ bucket[moveArgs.sourceKey] # Missing
  /\ moveArgs.sourceKey # moveArgs.destinationKey
  /\ bucket' = [bucket EXCEPT ![moveArgs.destinationKey] = bucket[moveArgs.sourceKey]]
  /\ commands' = Append(commands, "DeleteObject")
  /\ spc' = "deleting"
  /\ UNCHANGED << moveArgs, movedObject, moveResult, moveError, notStorage >>

\* the delete is sent although the copy failed
CopyFails_thenDelete ==
  /\ spc = "copying"
  /\ commands' = Append(commands, "DeleteObject")
  /\ spc' = "deleting"
  /\ UNCHANGED << bucket, moveArgs, movedObject, moveResult, moveError, notStorage >>

\* CopyObject fails (no such key, refused, network): await this.copy throws
\* and move rejects with that error
CopyFails ==
  /\ spc = "copying"
  /\ spc' = "failed"
  /\ moveError' = Some("CopyObject")
  /\ UNCHANGED << bucket, moveArgs, movedObject, commands, moveResult, notStorage >>

\* DeleteObject succeeds: the source key is removed and move returns
\* destinationKey
DeleteSucceeds ==
  /\ spc = "deleting"
  /\ bucket' = [bucket EXCEPT ![moveArgs.sourceKey] = Missing]
  /\ spc' = "done"
  /\ moveResult' = Some(moveArgs.destinationKey)
  /\ UNCHANGED << moveArgs, movedObject, commands, moveError, notStorage >>

\* DeleteObject fails: move rejects with that error
DeleteFails ==
  /\ spc = "deleting"
  /\ spc' = "failed"
  /\ moveError' = Some("DeleteObject")
  /\ UNCHANGED << bucket, moveArgs, movedObject, commands, moveResult, notStorage >>

StorageNext ==
  \/ StorageUpload
  \/ MoveCall
  \/ CopySucceeds
  \/ CopyFails
  \/ DeleteSucceeds
  \/ DeleteFails

SpecStorage == Init /\ [][StorageNext]_vars

(* ---- a Redis server used through RedisService --------------------------- *)
\* ttl arguments of set: omitted, no expiry, and two positive values
TtlArgs == {Missing, Some(0), Some(TickSeconds), Some(2 * TickSeconds)}

\* Redis removes an entry once its expiry time is reached
Expired(entry, time) ==
  entry # Missing /\ entry[1].expiresAt # Missing /\ entry[1].expiresAt[1] <= time

RedisSet ==
  /\ \E key \in RedisKeys, value \in RedisValues, ttlArg \in TtlArgs :
       store' = [store EXCEPT ![key] = Some(RedisServiceSet(value, ttlArg, rclock))]
  /\ rpc' = "set"
  /\ UNCHANGED << rclock, getCall, notRedis >>

RedisGet ==
  /\ \E key \in RedisKeys :
       getCall' = [key |-> key, value |-> RedisServiceGet(store[key])]
  /\ rpc' = "got"
  /\ UNCHANGED << rclock, store, notRedis >>

\* del(key)
RedisDel ==
  /\ \E key \in RedisKeys : store' = [store EXCEPT ![key] = Missing]
  /\ rpc' = "deleted"
  /\ UNCHANGED << rclock, getCall, notRedis >>

\* time passes on the server; entries whose expiry is reached are gone
RedisTick ==
  /\ rclock < MaxNow
  /\ rclock' = rclock + TickSeconds
  /\ store' = [k \in RedisKeys |->
                 IF Expired(store[k], rclock + TickSeconds) THEN Missing ELSE store[k]]
  /\ rpc' = "tick"
  /\ UNCHANGED << getCall, notRedis >>

RedisNext == RedisSet \/ RedisGet \/ RedisDel \/ RedisTick

SpecRedis == Init /\ [][RedisNext]_vars

(* ---- GET /health -------------------------------------------------------- *)
\* HealthController.check: health.check([...]) starts the five indicators
HealthCheckStart ==
  /\ hpc \in {"idle", "done"}
  /\ probes' \in { p \in [Indicators -> UNION { ProbeOutcomes(i) : i \in Indicators }] :
                     \A i \in Indicators : p[i] \in ProbeOutcomes(i) }
  /\ indicatorResults' = [i \in Indicators |-> Missing]
  /\ healthStatus' = Missing
  /\ hpc' = "running"
  /\ UNCHANGED notHealth

\* an indicator's promise settles; the indicators settle in any order
IndicatorSettles(i) ==
  /\ hpc = "running"
  /\ indicatorResults[i] = Missing
  /\ indicatorResults' = [indicatorResults EXCEPT ![i] = Some(RunIndicator(i, probes[i]))]
  /\ UNCHANGED << hpc, probes, healthStatus, notHealth >>

\* all have settled: terminus answers 200, or 503 when an indicator is down
HealthCheckFinish ==
  /\ hpc = "running"
  /\ \A i \in Indicators : indicatorResults[i] # Missing
  /\ healthStatus' = IF \E i \in Indicators : indicatorResults[i][1].status = "down"
                     THEN Some(503) ELSE Some(200)
  /\ hpc' = "done"
  /\ UNCHANGED << probes, indicatorResults, notHealth >>

HealthNext ==
  \/ HealthCheckStart
  \/ \E i \in Indicators : IndicatorSettles(i)
  \/ HealthCheckFinish

SpecHealth == Init /\ [][HealthNext]_vars

(* ---- calls of extractReqInfo ------------------------------------------- *)
\* a call of extractReqInfo with the given arguments, from start to return
ExtractReqInfoCall(req, opts, redisGiven, fault) ==
  LET run == extractReqInfo(req, opts, redisGiven, fault, geoCache, qclock)
  IN  /\ reqCall' = ReqCall(req, opts, redisGiven, fault, qclock)
      /\ clientInfo' = run.info
      /\ geoCache' = run.cache
      /\ redisOps' = run.ops
      /\ lookups' = run.lookups
      /\ qpc' = "resolved"
      /\ UNCHANGED << qclock, notReqInfo >>

\* the first call on a fresh cache, for any request
ExtractReqInfoOnce ==
  /\ qpc = "idle"
  /\ \E clientIp \in ClientIps, userAgent \in UserAgents, opts \in ReqOptions,
        redisGiven \in BOOLEAN, fault \in Faults :
       ExtractReqInfoCall([clientIp |-> clientIp, userAgent |-> userAgent],
                          opts, redisGiven, fault)

SpecReqInfo == Init /\ [][ExtractReqInfoOnce]_vars

\* requests from a public and from a private address, calls following
\* each other on the same cache
RepeatedClientIps == {Some(IPv4(8, 8, 8, 8)), Some(IPv4(10, 1, 2, 3))}

RepeatedFaults == {"none", "lookup", "redis.get", "redis.set"}

ExtractReqInfoAgain ==
  \E clientIp \in RepeatedClientIps, opts \in ReqOptions,
     redisGiven \in BOOLEAN, fault \in RepeatedFaults :
    ExtractReqInfoCall([clientIp |-> clientIp, userAgent |-> Some("curl/8.4.0")],
                       opts, redisGiven, fault)

\* time passes; cache entries whose expiry is reached are gone
GeoCacheTick ==
  /\ qclock < MaxGeoClock
  /\ qclock' = qclock + GeoTickSeconds
  /\ geoCache' = [k \in GeoCacheKeys |->
                    IF Expired(geoCache[k], qclock + GeoTickSeconds)
                    THEN Missing ELSE geoCache[k]]
  /\ UNCHANGED << qpc, reqCall, clientInfo, redisOps, lookups, notReqInfo >>

GeoCacheNext == ExtractReqInfoAgain \/ GeoCacheTick

SpecGeoCache == Init /\ [][GeoCacheNext]_vars

(* ---- a call of buildRangeFilter ---------------------------------------- *)
BuildRangeFilterCall ==
  /\ \E exactValue \in OptionalFieldValues, minValue \in OptionalFieldValues,
        maxValue \in OptionalFieldValues,
        inclusive \in {Missing, Some(TRUE), Some(FALSE)} :
       /\ rangeArgs' = [ exactValue |-> exactValue, minValue |-> minValue,
                         maxValue |-> maxValue, inclusive |-> inclusive ]
       /\ rangeFilter' = buildRangeFilter(exactValue, minValue, maxValue, inclusive)
  /\ bpc' = "returned"
  /\ UNCHANGED notRangeFilter

SpecRangeFilter == Init /\ [][BuildRangeFilterCall]_vars

(* ---- a call of randomInt ------------------------------------------------ *)
RandomIntCall ==
  /\ \E min \in (0 - MaxRandom)..MaxRandom, max \in (0 - MaxRandom)..MaxRandom :
       /\ min < max
       /\ randomArgs' = [min |-> min, max |-> max]
       /\ randomResult' \in randomInt(min, max)
  /\ npc' = "returned"
  /\ UNCHANGED notRandomInt

SpecRandomInt == Init /\ [][RandomIntCall]_vars

(* ---- a call of mergeSearchConditions ----------------------------------- *)
MergeSearchConditionsCall ==
  /\ \E andFilters \in AndFilterObjects,
        searchConditions \in {Missing} \cup { Some(l) : l \in SearchConditionLists } :
       /\ mergeArgs' = [andFilters |-> andFilters, searchConditions |-> searchConditions]
       /\ merged' = mergeSearchConditions(andFilters, searchConditions)
  /\ mpc' = "returned"
  /\ UNCHANGED notMerge

SpecMerge == Init /\ [][MergeSearchConditionsCall]_vars

(* ---- paginate over an in-memory list ----------------------------------- *)
\* paginate is called with the in-memory callback over some list; the
\* callback returns a promise and does not throw
ListPaginateCall ==
  /\ pc = "idle"
  /\ allItems' \in ItemLists
  /\ \E p \in PageInputs, l \in LimitInputs, t \in BOOLEAN :
       LET opts == [page |-> p, limit |-> l, transform |-> t]
           inv == paginateInvoke(opts)
       IN  /\ options' = opts
           /\ normalized' = inv.normalized
           /\ skip' = inv.skip
           /\ fetchCalls' = Append(fetchCalls, inv.call)
  /\ callback' = "pending"
  /\ pc' = "awaiting"
  /\ UNCHANGED << fetched, thrown, result, failure, itemsAfter, notListBacked >>

\* the promise resolves with the slice and the length of the list, and
\* paginate returns
ListFetchResolves ==
  /\ pc = "awaiting"
  /\ callback = "pending"
  /\ LET call == fetchCalls[Len(fetchCalls)]
         page == InMemoryFetch(allItems, call.skip, call.take)
     IN  /\ fetched' = Some(page)
         /\ result' = Some(paginateFinish(options, normalized, skip,
                                          page.items, page.total))
         /\ itemsAfter' = Some(page.items)
  /\ callback' = "resolved"
  /\ pc' = "returned"
  /\ UNCHANGED << options, normalized, skip, fetchCalls, thrown, failure,
                  allItems, notListBacked >>

ListBackedNext == ListPaginateCall \/ ListFetchResolves

SpecListBacked == Init /\ [][ListBackedNext]_vars

TypeOK ==
  /\ pc \in {"idle", "awaiting", "returned", "rejected"}
  /\ callback \in {"notCalled", "pending", "resolved", "rejected", "threw"}
  /\ options.page = Missing \/ options.page[1] \in Int
  /\ options.limit = Missing \/ options.limit[1] \in Int
  /\ options.transform \in BOOLEAN
  /\ dpc \in {"idle", "decorated", "handedOver"}
  /\ query.page \in QueryValues
  /\ query.limit \in QueryValues

(***************************************************************************)
(* Properties                                                              *)
(***************************************************************************)
\* the meta of the returned page and what the callback delivered
Meta == result[1].meta

Fetched == fetched[1]

\* maximum / minimum of two integers, stated without MathMax / MathMin
GreaterOf(a, b) == CHOOSE m \in {a, b} : \A x \in {a, b} : m >= x

LesserOf(a, b) == CHOOSE m \in {a, b} : \A x \in {a, b} : m <= x

\* C1: for every page and limit, each missing or any integer, the normalized
\* options satisfy page >= 1 and 1 <= limit <= 100; normalization never
\* fails, so a paginate call rejects only with what the callback raised.
C1_NormalizedBounded ==
  /\ normalized.page >= 1
  /\ normalized.limit >= 1
  /\ normalized.limit <= 100
  /\ pc = "rejected" => callback \in {"threw", "rejected"}

C1_Witness ==
  /\ pc = "awaiting"
  /\ options.page = Some(0 - MaxNeg)
  /\ options.limit = Some(OversizedLimit)
  /\ normalized = [page |-> 1, limit |-> 100]

\* C2 as stated: a limit that is missing or an integer <= 0 normalizes to 10.
C2_Original ==
  (pc # "idle" /\ (options.limit = Missing \/ options.limit[1] <= 0))
    => normalized.limit = 10

\* C2 amended: a missing limit normalizes to 10, an integer limit <= 0
\* normalizes to 1 (the lower clamp, not the default).
C2_MissingTenNonPositiveOne ==
  pc # "idle" =>
    /\ options.limit = Missing => normalized.limit = 10
    /\ (options.limit # Missing /\ options.limit[1] <= 0)
         => normalized.limit = 1

C2_Witness ==
  /\ pc = "awaiting"
  /\ options.limit = Some(0)
  /\ normalized.limit = 1

\* C3: normalization equals the reference clamp page = max(page ?? 1, 1),
\* limit = min(max(limit ?? 10, 1), 100): a page missing or <= 0 becomes 1,
\* a limit > 100 becomes 100, a page >= 1 and a limit in 1..100 are kept.
C3_ReferenceClamp ==
  pc # "idle" =>
    LET p == options.page
        l == options.limit
    IN  /\ (p = Missing \/ p[1] <= 0) => normalized.page = 1
        /\ (p # Missing /\ p[1] >= 1) => normalized.page = p[1]
        /\ (l # Missing /\ l[1] > 100) => normalized.limit = 100
        /\ (l # Missing /\ l[1] >= 1 /\ l[1] <= 100) => normalized.limit = l[1]
        /\ normalized.page = GreaterOf(IF p = Missing THEN 1 ELSE p[1], 1)
        /\ normalized.limit =
             LesserOf(GreaterOf(IF l = Missing THEN 10 ELSE l[1], 1), 100)

C3_Witness ==
  /\ pc = "awaiting"
  /\ options.page = Some(0)
  /\ options.limit = Some(101)
  /\ normalized = [page |-> 1, limit |-> 100]

\* C4: paginate invokes the callback with skip = (page - 1) * limit and
\* take = limit for the normalized page and limit, not the raw ones; raw
\* page -1 and limit 500 lead to fetch(0, 100).
C4_FetchArguments ==
  pc # "idle" =>
    /\ Len(fetchCalls) >= 1
    /\ \A i \in 1..Len(fetchCalls) :
         /\ fetchCalls[i].skip = (normalized.page - 1) * normalized.limit
         /\ fetchCalls[i].take = normalized.limit
         /\ fetchCalls[i].skip >= 0
         /\ fetchCalls[i].take \in 1..100
    /\ (options.page = Some(0 - 1) /\ options.limit = Some(500))
         => fetchCalls[1] = [skip |-> 0, take |-> 100]

C4_Witness ==
  /\ pc = "awaiting"
  /\ options.page = Some(0 - 1)
  /\ options.limit = Some(500)
  /\ fetchCalls = << [skip |-> 0, take |-> 100] >>

\* C5: for every total >= 0 and limit >= 1, totalPages is
\* max(ceil(total / limit), 1): the least n >= 1 with n * limit >= total;
\* it is 1 when total is 0.
C5_TotalPages ==
  pc = "returned" =>
    /\ Meta.total = Fetched.total
    /\ Meta.limit = normalized.limit
    /\ Meta.totalPages >= 1
    /\ Meta.totalPages * Meta.limit >= Meta.total
    /\ Meta.totalPages > 1 => (Meta.totalPages - 1) * Meta.limit < Meta.total
    /\ Meta.total = 0 => Meta.totalPages = 1

C5_Witness ==
  /\ pc = "returned"
  /\ Meta.total = 5
  /\ Meta.limit = 2
  /\ Meta.totalPages = 3

C7_EmptyPageZeroRange ==
  (pc = "returned" /\ Meta.count = 0)
    => (Meta.firstItem = 0 /\ Meta.lastItem = 0)

\* C8: hasNextPage = (page < totalPages), hasPreviousPage = (page > 1);
\* nextPage = page + 1 exactly when hasNextPage, else null;
\* previousPage = page - 1 exactly when hasPreviousPage, else null.
C8_NavigationFlags ==
  pc = "returned" =>
    /\ Meta.page = normalized.page
    /\ Meta.hasNextPage = (Meta.page < Meta.totalPages)
    /\ Meta.hasPreviousPage = (Meta.page > 1)
    /\ Meta.hasNextPage => Meta.nextPage = Some(Meta.page + 1)
    /\ ~Meta.hasNextPage => Meta.nextPage = Missing
    /\ Meta.hasPreviousPage => Meta.previousPage = Some(Meta.page - 1)
    /\ ~Meta.hasPreviousPage => Meta.previousPage = Missing

C8_Witness ==
  /\ pc = "returned"
  /\ Meta.page = 2
  /\ Meta.totalPages = 3
  /\ Meta.hasNextPage
  /\ Meta.hasPreviousPage
  /\ Meta.nextPage = Some(3)
  /\ Meta.previousPage = Some(1)

\* C9 as stated: in every meta returned by paginate, 0 <= count <= limit.
C9_Original ==
  pc = "returned" => (0 <= Meta.count /\ Meta.count <= Meta.limit)

\* C9 amended: count is the number of items the callback returned, so
\* count >= 0, and count <= limit whenever the callback returned at most
\* `take` items.
C9_CountIsFetchedLength ==
  pc = "returned" =>
    /\ Meta.count = Len(Fetched.items)
    /\ Meta.count >= 0
    /\ Len(Fetched.items) <= fetchCalls[1].take => Meta.count <= Meta.limit

C9_Witness ==
  /\ pc = "returned"
  /\ fetchCalls[1].take = 3
  /\ Len(Fetched.items) = 3
  /\ Meta.count = 3
  /\ Meta.limit = 3

\* C10: if the callback throws or rejects, paginate rejects with that same
\* failure and returns no result; the callback is invoked exactly once per
\* paginate call, so a failure is not retried.
C10_FailurePropagates ==
  /\ thrown # Missing =>
       /\ pc = "rejected"
       /\ failure = thrown
       /\ result = Missing
  /\ pc # "idle" => Len(fetchCalls) = 1
  /\ pc = "idle" => Len(fetchCalls) = 0

C10_Witness ==
  /\ pc = "rejected"
  /\ callback = "rejected"
  /\ thrown = Some("connection lost")
  /\ failure = Some("connection lost")
  /\ result = Missing
  /\ Len(fetchCalls) = 1

\* C11: with a transform, data is the transform applied to each fetched
\* item in the same order and has the same length; without one, data is the
\* fetched list unchanged; in both cases meta.count is the number of
\* fetched items.
C11_TransformInOrder ==
  pc = "returned" =>
    LET data  == result[1].data
        items == Fetched.items
    IN  /\ Len(data) = Len(items)
        /\ options.transform =>
             \A i \in 1..Len(items) : data[i] = sampleTransform(items[i])
        /\ ~options.transform => data = items
        /\ Meta.count = Len(items)

C11_Witness ==
  /\ pc = "returned"
  /\ options.transform
  /\ Fetched.items = << 1, 2 >>
  /\ result[1].data = << sampleTransform(1), sampleTransform(2) >>
  /\ Meta.count = 2

\* a normalized pair, given again as an options object
AsOptions(norm) == [page |-> Some(norm.page), limit |-> Some(norm.limit)]

\* C12: normalization is idempotent (normalizing a normalized pair returns
\* the same pair), so the decorator's output is unchanged when paginate
\* normalizes it again.
C12_NormalizeIdempotent ==
  /\ normalizePaginationOptions(AsOptions(normalized)) = normalized
  /\ normalizePaginationOptions(AsOptions(pagination)) = pagination
  /\ dpc = "handedOver" =>
       /\ options.page = Some(pagination.page)
       /\ options.limit = Some(pagination.limit)
       /\ normalized = pagination

C12_Witness ==
  /\ dpc = "handedOver"
  /\ query.page = Some(<< "-", "1" >>)
  /\ query.limit = Some(<< "1", "1", "1" >>)
  /\ pagination = [page |-> 1, limit |-> 100]
  /\ normalized = [page |-> 1, limit |-> 100]

\* a query-string value with no integer at its start: absent, empty, or
\* starting (after an optional minus sign) with something else than a digit
NonNumeric(v) ==
  \/ v = Missing
  \/ v[1] = << >>
  \/ /\ v[1][1] \notin Digits
     /\ (v[1][1] # "-" \/ Len(v[1]) = 1 \/ v[1][2] \notin Digits)

C15_InputsUnchanged ==
  [][ /\ pc # "idle" => options' = options
      /\ pc' = "returned" => itemsAfter' = Some(fetched'[1].items) ]_vars

C15_Witness ==
  /\ pc = "returned"
  /\ options = [page |-> Some(0 - 1), limit |-> Some(OversizedLimit),
                transform |-> TRUE]
  /\ Fetched.items = << 1, 2 >>
  /\ itemsAfter = Some(<< 1, 2 >>)
  /\ result[1].data = << sampleTransform(1), sampleTransform(2) >>

\* what paginate returns for opts when it runs alone and its callback
\* resolves with fr
SoloResult(opts, fr) ==
  LET norm == normalizePaginationOptions(opts)
  IN  [ data |-> IF opts.transform
                 THEN [k \in 1..Len(fr.items) |-> sampleTransform(fr.items[k])]
                 ELSE fr.items,
        meta |-> buildPaginationMeta(fr.total, Len(fr.items),
                                     (norm.page - 1) * norm.limit, norm) ]

\* C14: with several paginate calls in flight and their callbacks completing
\* in any order, each call returns what it would return alone: its result
\* depends only on its own options and its own fetch result, a rejected call
\* fails with its own callback's error, and two calls with identical options
\* and fetch result return identical output.
C14_CallsIndependent ==
  \A i \in Calls :
    /\ inflight[i].pc = "returned" =>
         inflight[i].result =
           Some(SoloResult(inflight[i].options, inflight[i].fetched[1]))
    /\ inflight[i].pc = "rejected" =>
         (inflight[i].failure = inflight[i].thrown /\ inflight[i].result = Missing)
    /\ \A j \in Calls :
         ( /\ inflight[i].pc = "returned"
           /\ inflight[j].pc = "returned"
           /\ inflight[i].options = inflight[j].options
           /\ inflight[i].fetched = inflight[j].fetched )
         => inflight[i].result = inflight[j].result

\* both calls were in flight together; the one started with page 2, limit 2
\* returned what it returns alone while the other one had clamped (-1, 500)
C14_Witness ==
  /\ inflight[1].pc = "returned"
  /\ inflight[2].pc = "returned"
  /\ inflight[1].options = [page |-> Some(2), limit |-> Some(2), transform |-> TRUE]
  /\ inflight[2].options.limit = Some(OversizedLimit)
  /\ inflight[1].fetched = Some([items |-> << 1, 2 >>, total |-> 5])
  /\ inflight[1].result[1].meta.firstItem = 3
  /\ inflight[1].result[1].meta.limit = 2
  /\ inflight[2].result[1].meta.limit = 100

\* the request failed with RequestTimeoutException (HTTP 408,
\* 'Request timed out')
TimedOut ==
  /\ outcome # Missing
  /\ outcome[1].kind = "error"
  /\ outcome[1].error.class = "HttpException"
  /\ outcome[1].error.status = 408
  /\ outcome[1].error.message = << "Request", "timed", "out" >>

\* C16: a handler that has not responded within timeoutMs (30000 ms unless
\* configured) makes the request fail with RequestTimeoutException (408,
\* 'Request timed out'); a response before the deadline is passed on
\* unchanged; an error that is not a timeout is rethrown unchanged.
C16_TimeoutEnforced ==
  /\ [](tpc = "waiting" => clock <= timeoutMs)
  /\ [](timeoutMs \in {30000, CustomTimeoutMs})
  /\ []((tpc = "done" /\ handlerEvent = Missing) =>
          (TimedOut /\ clock = timeoutMs))
  /\ []((handlerEvent # Missing /\ handlerEvent[1].kind = "next") =>
          /\ handlerEvent[1].at <= timeoutMs
          /\ outcome = Some([kind |-> "next", value |-> handlerEvent[1].value]))
  /\ []((handlerEvent # Missing /\ handlerEvent[1].kind = "error"
           /\ handlerEvent[1].error.class # "TimeoutError") =>
          outcome = Some([kind |-> "error", error |-> handlerEvent[1].error]))
  /\ ((tpc = "waiting") ~> (tpc = "done"))

C16_Witness ==
  /\ tpc = "done"
  /\ timeoutMs = 30000
  /\ clock = 30000
  /\ handlerEvent = Missing
  /\ TimedOut

\* the status the filter is to answer with, by the class of the exception
ExpectedStatus(e) ==
  CASE e.class = "HttpException" -> e.status
    [] e.class = "QueryFailedError"
         /\ Includes(e.message, << "violates", "foreign", "key", "constraint" >>)
       -> 404
    [] e.class = "QueryFailedError"
         /\ ~Includes(e.message, << "violates", "foreign", "key", "constraint" >>)
       -> 400
    [] OTHER -> 500

\* C17: for every exception, catch sends exactly one response, with
\* success = false and the status of the exception's class: its own status
\* for an HttpException (message 'Validation failed' and the errors list
\* when the response message is an array), 404 for a foreign-key
\* QueryFailedError, 400 for any other QueryFailedError, 500 otherwise.
C17_OneResponsePerException ==
  fpc # "idle" =>
    /\ Len(sent) = 1
    /\ sent[1].body.success = FALSE
    /\ sent[1].status = ExpectedStatus(exception)
    /\ sent[1].body.error.statusCode = sent[1].status
    /\ (exception.class = "HttpException" /\ exception.response = "object"
          /\ exception.rawMessage[1] = "array") =>
         /\ sent[1].body.error.message = << "Validation", "failed" >>
         /\ sent[1].body.error.errors = Some(exception.rawMessage[2])

FixedMessages ==
  { << "Referenced", "record", "not", "found" >>,
    << "Database", "query", "failed" >>,
    << "Internal", "server", "error" >> }

\* whether two exceptions agree on being a foreign-key violation
SameForeignKeyCase(e1, e2) ==
  Includes(e1.message, << "violates", "foreign", "key", "constraint" >>)
    = Includes(e2.message, << "violates", "foreign", "key", "constraint" >>)

\* C18 as stated: the response to an exception that is no HttpException
\* carries one of the three fixed messages, and two exceptions of the same
\* class produce the same status and message.
C18_Original ==
  [][ (fpc' = "responded" /\ exception'.class # "HttpException") =>
        /\ sent'[1].body.error.message \in FixedMessages
        /\ (fpc = "responded" /\ exception.class = exception'.class) =>
             /\ sent'[1].status = sent[1].status
             /\ sent'[1].body.error.message = sent[1].body.error.message ]_vars

\* C18 amended: the response to an exception that is no HttpException
\* carries one of the three fixed messages; two such exceptions of the same
\* class produce the same status and message, provided that two
\* QueryFailedErrors agree on whether their message contains 'violates
\* foreign key constraint'.
C18_FixedMessagesOnly ==
  [][ (fpc' = "responded" /\ exception'.class # "HttpException") =>
        /\ sent'[1].body.error.message \in FixedMessages
        /\ sent'[1].body.error.errors = Missing
        /\ ( /\ fpc = "responded"
             /\ exception.class = exception'.class
             /\ (exception.class = "QueryFailedError"
                   => SameForeignKeyCase(exception, exception')) ) =>
             /\ sent'[1].status = sent[1].status
             /\ sent'[1].body.error.message = sent[1].body.error.message ]_vars

C18_Witness ==
  /\ fpc = "responded"
  /\ exception.class = "QueryFailedError"
  /\ exception.message = << "syntax", "error", "near", "SELEC" >>
  /\ exception.stack = "stack-2"
  /\ sent[1].status = 400
  /\ sent[1].body.error.message = << "Database", "query", "failed" >>

\* C19: in the request body written to the debug log, the value of every
\* field named password, token, secret or authorization is replaced by a
\* redaction marker, so its original value is not in the log.
C19_SensitiveFieldsRedacted ==
  debugLog # Missing =>
    \A k \in DOMAIN debugLog[1] :
      k \in {"password", "token", "secret", "authorization"} =>
        /\ debugLog[1][k] = "***REDACTED***"
        /\ debugLog[1][k] # request.body[k]

\* the result already has a success field whose value is not undefined
HasDefinedSuccess(r) ==
  \/ r.kind = "envelope"
  \/ (r.kind = "object" /\ "success" \in DOMAIN r.fields
        /\ r.fields["success"] # "undefined")

\* the meta field of a result, if it has one
MetaOf(r) ==
  CASE r.kind = "object" /\ "meta" \in DOMAIN r.fields -> Some(r.fields["meta"])
    [] r.kind = "envelope" -> r.meta
    [] OTHER -> Missing

\* envelope.meta as JavaScript reads it: undefined when the key is absent
TopLevelMeta(e) == IF e.meta = Missing THEN "undefined" ELSE e.meta[1]

ExpectedExpiry(ttlArg, setAt) ==
  CASE ttlArg = Missing -> Some(setAt + 60)
    [] ttlArg # Missing /\ ttlArg[1] > 0 -> Some(setAt + ttlArg[1])
    [] OTHER -> Missing

\* each entry has the expiry its set call asked for, and is gone once that
\* time is reached
ExpiryAsRequested ==
  \A k \in RedisKeys :
    store[k] # Missing =>
      /\ store[k][1].expiresAt = ExpectedExpiry(store[k][1].ttlArg, store[k][1].setAt)
      /\ store[k][1].expiresAt # Missing => rclock < store[k][1].expiresAt[1]

\* values that JSON text represents exactly
RECURSIVE JsonRepresentable(_)
JsonRepresentable(value) ==
  CASE value.kind \in {"string", "number", "null"} -> TRUE
    [] value.kind = "object" ->
         \A k \in DOMAIN value.fields : JsonRepresentable(value.fields[k])
    [] OTHER -> FALSE

\* C22 as stated: set stores the value with an expiry of ttl seconds when
\* ttl > 0 (60 when omitted) and none when ttl is 0; until the entry expires
\* or is deleted, get returns a value equal to the one stored; get of an
\* absent key returns undefined.
C22_Original ==
  /\ ExpiryAsRequested
  /\ rpc = "got" =>
       getCall.value = IF store[getCall.key] = Missing
                       THEN [kind |-> "undefined"]
                       ELSE store[getCall.key][1].value

\* C22 amended: set stores the value with an expiry of ttl seconds when
\* ttl > 0 (60 when omitted) and none when ttl is 0; until the entry expires
\* or is deleted, get returns the value that the stored JSON text denotes,
\* which equals the stored value when that value consists of strings,
\* finite numbers, null and objects of these (a Date comes back as its ISO
\* string, NaN as null); get of an absent key returns undefined.
C22_SetThenGet ==
  /\ ExpiryAsRequested
  /\ rpc = "got" =>
       IF store[getCall.key] = Missing
       THEN getCall.value = [kind |-> "undefined"]
       ELSE LET stored == store[getCall.key][1].value
            IN  /\ JsonRepresentable(stored) => getCall.value = stored
                /\ stored.kind = "Date" =>
                     getCall.value = [kind |-> "string", s |-> stored.iso]
                /\ stored.kind = "NaN" => getCall.value = [kind |-> "null"]
                /\ getCall.value.kind # "undefined"

C22_Witness ==
  /\ rpc = "got"
  /\ rclock = 2 * TickSeconds
  /\ store[getCall.key] # Missing
  /\ store[getCall.key][1].ttlArg = Missing
  /\ store[getCall.key][1].setAt = 0
  /\ store[getCall.key][1].value.kind = "object"
  /\ getCall.value = store[getCall.key][1].value

\* C23: the storage and SMTP indicators report 'up' also when HeadBucket or
\* the SMTP verify fails, then with a fixed 'degraded' message that has
\* nothing of the error in it; so /health answers 503 only when the
\* database, memory or redis indicator is down, whatever fails and in
\* whatever order the indicators settle.
C23_NonCriticalChecks ==
  /\ \A i \in {"smtp", "storage"} :
       indicatorResults[i] # Missing =>
         /\ indicatorResults[i][1].status = "up"
         /\ ~probes[i].ok =>
              /\ indicatorResults[i][1].message \in
                   { Some("degraded - SMTP service unavailable"),
                     Some("degraded - storage service unavailable") }
              /\ indicatorResults[i][1].message # Some(probes[i].detail)
  /\ hpc = "done" =>
       healthStatus =
         IF /\ probes["database"].ok
            /\ probes["memory_heap"].ok
            /\ probes["redis"] = [ok |-> TRUE, detail |-> "PONG"]
         THEN Some(200) ELSE Some(503)

C23_Witness ==
  /\ hpc = "done"
  /\ ~probes["smtp"].ok
  /\ ~probes["storage"].ok
  /\ probes["database"].ok /\ probes["memory_heap"].ok /\ probes["redis"].ok
  /\ healthStatus = Some(200)

\* an address of a private IPv4 range (also behind ::ffff:), the loopback
\* addresses, and the unique local IPv6 addresses fc00::/7
IsPrivateOrLoopback(ip) ==
  IF ip.form = "v4"
  THEN \/ ip.octets[1] \in {10, 127}
       \/ (ip.octets[1] = 172 /\ ip.octets[2] \in 16..31)
       \/ (ip.octets[1] = 192 /\ ip.octets[2] = 168)
  ELSE \/ ip.pieces = << "", "", "1" >>
       \/ ip.pieces[1] \in {"fc00", "fd12"}

\* the step named by the call's fault was reached, and so failed
StepFailed ==
  CASE reqCall.fault \in {"getClientIp", "UAParser"} -> TRUE
    [] reqCall.fault = "lookup" -> lookups = 1
    [] reqCall.fault = "redis.get" -> redisOps # << >>
    [] reqCall.fault = "redis.set" -> Len(redisOps) = 2
    [] OTHER -> FALSE

\* C24: extractReqInfo always resolves; when a step of it fails (IP
\* resolution, user-agent parsing, GeoIP lookup, cache access) it resolves
\* with ip 127.0.0.1, browser 'unknown' and os 'unknown'; and a client
\* address that is private or loopback is reported as 127.0.0.1.
C24_SafeDefaults ==
  qpc = "resolved" =>
    /\ StepFailed =>
         /\ clientInfo.ip = [form |-> "v4", prefix |-> "", octets |-> << 127, 0, 0, 1 >>]
         /\ clientInfo.browser = "unknown"
         /\ clientInfo.os = "unknown"
    /\ (reqCall.req.clientIp # Missing
          /\ IsPrivateOrLoopback(reqCall.req.clientIp[1])) =>
         clientInfo.ip = [form |-> "v4", prefix |-> "", octets |-> << 127, 0, 0, 1 >>]

\* the call asks for the location with the cache on and a RedisService
CachingOn(call) ==
  call.options.extractLocationInfo /\ call.options.useCache /\ call.redis

\* the address a call reports
ReportedIp(call) ==
  IF call.req.clientIp = Missing \/ IsPrivateOrLoopback(call.req.clientIp[1])
  THEN [form |-> "v4", prefix |-> "", octets |-> << 127, 0, 0, 1 >>]
  ELSE call.req.clientIp[1]

\* cacheTtl of a call, 3600 by default
CacheTtlOf(call) ==
  IF call.options.cacheTtl = Missing THEN 3600 ELSE call.options.cacheTtl[1]

\* the step is a call of extractReqInfo that follows, within cacheTtl
\* seconds and for the same address, a call that looked the location up
\* with caching on
CachedCallFollows ==
  /\ qpc = "resolved" /\ CachingOn(reqCall)
  /\ lookups = 1 /\ clientInfo.ipInfo # Missing
  /\ qclock' = qclock
  /\ CachingOn(reqCall')
  /\ ReportedIp(reqCall') = ReportedIp(reqCall)
  /\ qclock < reqCall.at + CacheTtlOf(reqCall)

\* a call without useCache or without a RedisService does not touch Redis
UncachedCallLeavesRedis ==
  (qclock' = qclock /\ ~(reqCall'.options.useCache /\ reqCall'.redis)) =>
    (redisOps' = << >> /\ geoCache' = geoCache)

C29_RedisFailureInvisible ==
  ( /\ qpc = "resolved"
    /\ reqCall.options.useCache
    /\ reqCall.fault \in {"redis.get", "redis.set"} ) =>
    clientInfo =
      extractReqInfo(reqCall.req, [reqCall.options EXCEPT !.useCache = FALSE],
                     reqCall.redis, "none", geoCache, reqCall.at).info

\* C26: with minValue and maxValue and {inclusive: false}, the condition
\* excludes both bounds (min < value < max); with inclusive true, or not
\* given, it includes them; and a defined exactValue wins over min and max.
C26_RangeBounds ==
  bpc = "returned" =>
    IF rangeArgs.exactValue # Missing
    THEN rangeFilter = [op |-> "value", value |-> rangeArgs.exactValue[1]]
    ELSE (rangeArgs.minValue # Missing /\ rangeArgs.maxValue # Missing) =>
           \A x \in 0..MaxFieldValue :
             Satisfies(x, rangeFilter) <=>
               IF rangeArgs.inclusive = Some(FALSE)
               THEN rangeArgs.minValue[1] < x /\ x < rangeArgs.maxValue[1]
               ELSE rangeArgs.minValue[1] <= x /\ x <= rangeArgs.maxValue[1]

\* C27: for integers min < max, randomInt(min, max) returns an integer r
\* with min <= r < max, so max itself is never returned.
C27_MaxExclusive ==
  npc = "returned" =>
    randomArgs.min <= randomResult /\ randomResult < randomArgs.max

\* C30: every condition mergeSearchConditions returns has every field
\* constraint of andFilters, unchanged, also when a search condition is on a
\* field that andFilters constrains; without search conditions (undefined
\* or empty) it returns andFilters itself.
C30_AndFiltersKept ==
  mpc = "returned" =>
    IF mergeArgs.searchConditions = Missing \/ mergeArgs.searchConditions[1] = << >>
    THEN merged = [kind |-> "object", filter |-> mergeArgs.andFilters]
    ELSE /\ merged.kind = "array"
         /\ Len(merged.filters) = Len(mergeArgs.searchConditions[1])
         /\ \A i \in 1..Len(merged.filters) :
              \A k \in DOMAIN mergeArgs.andFilters :
                /\ k \in DOMAIN merged.filters[i]
                /\ merged.filters[i][k] = mergeArgs.andFilters[k]

\* C28: when the callback returns list.slice(skip, skip + take) and
\* list.length, the meta paginate returns has
\* 0 <= firstItem <= lastItem <= total, for every page and limit, also for
\* pages after the last one.
C28_ListBackedRange ==
  pc = "returned" =>
    /\ result[1].meta.total = Len(allItems)
    /\ 0 <= result[1].meta.firstItem
    /\ result[1].meta.firstItem <= result[1].meta.lastItem
    /\ result[1].meta.lastItem <= result[1].meta.total

====
